---- MODULE Spec2Model ----
(***************************************************************************)
(* Conversation state machine and media intake pipeline of the WhatsApp    *)
(* deepfake-detector bot (message_handler.py, storage_service.py,          *)
(* modal_service.py, document_extraction.py, whatsapp_service.py, app.py). *)
(*                                                                         *)
(* Strings whose characters matter (text bodies) are sequences of          *)
(* one-character strings; file names are sequences of their dot-separated  *)
(* parts; mime types are <<major, minor>>.  Python dicts are functions and *)
(* dict.get(k, d) is Get(d, k, default).  Replies are sequences of the     *)
(* literal pieces the code concatenates.                                   *)
(***************************************************************************)
EXTENDS Integers, Sequences, FiniteSets, TLC

VARIABLES user_greeted, user_state, storage, detection_history, last, call

vars == <<user_greeted, user_state, storage, detection_history, last, call>>

(***************************************************************************)
(* Bounds of the model.                                                    *)
(***************************************************************************)
MaxUploads == 1

(***************************************************************************)
(* Python helpers.                                                         *)
(***************************************************************************)
None == "None"

Get(d, k, default) == IF k \in DOMAIN d THEN d[k] ELSE default

\* Mutant: the assignment reaches every key of the dict.
Put_EveryKey(d, k, v) == [x \in DOMAIN d \cup {k} |-> v]

Put(d, k, v) == [x \in DOMAIN d \cup {k} |-> IF x = k THEN v ELSE d[x]]

Whitespace == {" ", "\t", "\n"}

RECURSIVE lstrip(_)
lstrip(s) == IF s # <<>> /\ Head(s) \in Whitespace THEN lstrip(Tail(s)) ELSE s

RECURSIVE rstrip(_)
rstrip(s) ==
    IF s # <<>> /\ s[Len(s)] \in Whitespace
    THEN rstrip(SubSeq(s, 1, Len(s) - 1))
    ELSE s

strip(s) == rstrip(lstrip(s))

lower_char(c) ==
    CASE c = "A" -> "a"
      [] c = "B" -> "b"
      [] c = "C" -> "c"
      [] c = "D" -> "d"
      [] c = "E" -> "e"
      [] c = "F" -> "f"
      [] c = "G" -> "g"
      [] c = "H" -> "h"
      [] c = "I" -> "i"
      [] c = "J" -> "j"
      [] c = "K" -> "k"
      [] c = "L" -> "l"
      [] c = "M" -> "m"
      [] c = "N" -> "n"
      [] c = "O" -> "o"
      [] c = "P" -> "p"
      [] c = "Q" -> "q"
      [] c = "R" -> "r"
      [] c = "S" -> "s"
      [] c = "T" -> "t"
      [] c = "U" -> "u"
      [] c = "V" -> "v"
      [] c = "W" -> "w"
      [] c = "X" -> "x"
      [] c = "Y" -> "y"
      [] c = "Z" -> "z"
      [] OTHER -> c

lower(s) == [i \in 1..Len(s) |-> lower_char(s[i])]

Rep(c, n) == [i \in 1..n |-> c]

(***************************************************************************)
(* config.py: bot messages.                                                *)
(***************************************************************************)
WELCOME_MESSAGE == "WELCOME_MESSAGE"

HELP_MESSAGE == "HELP_MESSAGE"

(***************************************************************************)
(* handle_text_message: the command words, in the order they are tested.   *)
(***************************************************************************)
\* Mutant: "hello" is missing.
GreetingCommands_NoHello ==
    { <<"h","i">>, <<"h","e","y">>, <<"s","t","a","r","t">> }

GreetingCommands ==
    { <<"h","i">>, <<"h","e","l","l","o">>, <<"h","e","y">>,
      <<"s","t","a","r","t">> }

HelpCommands ==
    { <<"h","e","l","p">>, <<"i","n","f","o">>, <<"?">>,
      <<"s","u","p","p","o","r","t">> }

ImageCommands ==
    { <<"1">>, <<"i","m","a","g","e">>, <<"p","h","o","t","o">>,
      <<"p","i","c","t","u","r","e">> }

VideoCommands ==
    { <<"2">>, <<"v","i","d","e","o">>, <<"v","i","d">> }

\* Mutant: the alias "txt" is missing.
TextCommands_NoTxt ==
    { <<"3">>, <<"t","e","x","t">> }

TextCommands ==
    { <<"3">>, <<"t","e","x","t">>, <<"t","x","t">> }

Commands ==
    GreetingCommands \cup HelpCommands \cup ImageCommands
        \cup VideoCommands \cup TextCommands

\* Mutant: the lower-casing is forgotten.
user_text_of_NoLower(text_body) == strip(text_body)

\* Mutant: the trimming is forgotten.
user_text_of_NoStrip(text_body) == lower(text_body)

user_text_of(text_body) == lower(strip(text_body))

MIN_TEXT_CHARS == 20

\* Mutant: the length is taken before trimming.
TextTooShort_NoStrip(text_body) == Len(text_body) < MIN_TEXT_CHARS

TextTooShort(text_body) == Len(strip(text_body)) < MIN_TEXT_CHARS

\* Mutant: one greeted flag for all senders.
NeedsGreeting_Global(greeted, from_number) == greeted = {}

\* `from_number not in user_greeted`, as a test on the greeted dict's keys.
NeedsGreeting(greeted, from_number) == from_number \notin greeted

\* Mutant: any selected mode counts as awaiting text.
AwaitingText_AnyMode(state, from_number) == Get(state, from_number, None) # None

\* `user_state.get(from_number) == 'text'`
AwaitingText(state, from_number) == Get(state, from_number, None) = "text"

\* Mutant: the test for a missing choice is dropped.
NoModeChosen_Never(expected_state) == FALSE

\* `expected_state is None`
NoModeChosen(expected_state) == expected_state = None

(***************************************************************************)
(* modal_service.py: detect_text_ai.  The endpoint's answer is the         *)
(* environment's choice: a verdict, a reported failure, an answer without  *)
(* its "result" part, or a transport failure (RequestException).           *)
(***************************************************************************)
MODAL_MIN_TEXT_CHARS == 20

TextVerdicts ==
    { [prediction |-> "AI", is_ai |-> TRUE, confidence |-> 875,
       confidence_percent |-> "87.5%", agreement |-> "3/3"],
      [prediction |-> "Human", is_ai |-> FALSE, confidence |-> 120,
       confidence_percent |-> "12.0%", agreement |-> "2/3"],
      [prediction |-> "UNCERTAIN", is_ai |-> FALSE, confidence |-> 500,
       confidence_percent |-> "50.0%", agreement |-> "1/3"] }

TextDetectorOutcomes ==
    { [kind |-> "response", response |-> [success |-> TRUE, result |-> v]] :
          v \in TextVerdicts }
      \cup { [kind |-> "response",
              response |-> [success |-> FALSE, error |-> "Detector failed"]],
             [kind |-> "response", response |-> [success |-> TRUE]],
             [kind |-> "request_exception", response |-> [success |-> FALSE]] }

\* What the call does with a text of the given trimmed length under outcome out:
\* raised = "" when it returns, else the exception's type; calls = HTTP calls made.
\* Mutant: a request that fails is sent once more before giving up.
detect_text_ai_Retry(stripped_len, out) ==
    IF stripped_len < MODAL_MIN_TEXT_CHARS
    THEN [raised |-> "", message |-> "",
          response |-> [success |-> FALSE, error |-> "Text too short"],
          calls |-> <<>>]
    ELSE IF out.kind = "request_exception"
    THEN [raised |-> "ModalDetectionError",
          message |-> "Text detection failed", response |-> out.response,
          calls |-> <<"detect_text", "detect_text">>]
    ELSE IF Get(out.response, "success", FALSE)
            /\ "result" \notin DOMAIN out.response
    THEN [raised |-> "KeyError", message |-> "'result'",
          response |-> out.response, calls |-> <<"detect_text">>]
    ELSE [raised |-> "", message |-> "", response |-> out.response,
          calls |-> <<"detect_text">>]

detect_text_ai(stripped_len, out) ==
    IF stripped_len < MODAL_MIN_TEXT_CHARS
    THEN [raised |-> "", message |-> "",
          response |-> [success |-> FALSE, error |-> "Text too short"],
          calls |-> <<>>]
    ELSE IF out.kind = "request_exception"
    THEN [raised |-> "ModalDetectionError",
          message |-> "Text detection failed", response |-> out.response,
          calls |-> <<"detect_text">>]
    ELSE IF Get(out.response, "success", FALSE)
            /\ "result" \notin DOMAIN out.response
    THEN \* line 254: result['result']['prediction']
         [raised |-> "KeyError", message |-> "'result'",
          response |-> out.response, calls |-> <<"detect_text">>]
    ELSE [raised |-> "", message |-> "", response |-> out.response,
          calls |-> <<"detect_text">>]

(***************************************************************************)
(* app.py webhook, per message: the handler's outcome becomes the new      *)
(* state; the reply, when there is one, is sent after the messages the     *)
(* handler sent itself.  `last` records the event for the properties: the  *)
(* message, the state before, the messages sent, the external calls made   *)
(* in order, and in env what each collaborator did.                        *)
(***************************************************************************)
NoReply == <<>>

\* What the collaborators did in a run with no collaborator involved.
NoEnv == [none |-> TRUE]

\* No service function is applied on its own while messages are handled.
NoCall == [op |-> "none"]

\* The media id of a message, None for a message without one.
MediaIdOf(message) ==
    IF message.type \in {"image", "video", "document"}
    THEN Get(Get(message, message.type, <<>>), "id", None)
    ELSE None

\* A handling of a media message that was in flight ends with its return.
\* With several handlers at work (op "handlers"), the message leaves the
\* set of those in flight and its id joins those received.  Within an
\* inbound event (op "event") the message joins those the loop has seen.
Completed(c, from_number, message) ==
    IF c.op = "handle_media" /\ c.from_number = from_number
           /\ c.message = message
    THEN [c EXCEPT !.op = "handled_media"]
    ELSE IF c.op = "event"
    THEN [c EXCEPT !.seen = Append(@, message)]
    ELSE IF c.op = "handlers" /\ MediaIdOf(message) # None
    THEN [c EXCEPT !.flights = {f \in @ : MediaIdOf(f) # MediaIdOf(message)},
                   !.received = @ \cup {MediaIdOf(message)}]
    ELSE c

Deliver(from_number, message, greeted2, state2, storage2, history2, direct, reply, calls, raised, env) ==
    /\ user_greeted' = greeted2
    /\ user_state' = state2
    /\ storage' = storage2
    /\ detection_history' = history2
    /\ last' = [handled |-> TRUE,
                from |-> from_number,
                message |-> message,
                pre_greeted |-> from_number \in user_greeted,
                pre_state |-> Get(user_state, from_number, None),
                reply |-> IF raised THEN NoReply ELSE reply,
                sent |-> direct \o (IF raised \/ reply = NoReply
                                    THEN <<>> ELSE <<reply>>),
                calls |-> calls,
                raised |-> raised,
                env |-> env]
    /\ call' = Completed(call, from_number, message)

\* Mutant: the text of the message is kept as an asset.
ReturnText_Stores(from_number, message, greeted2, state2, reply, calls, raised, env) ==
    Deliver(from_number, message, greeted2, state2,
            Append(storage, [bucket |-> "text-uploads",
                             session_id |-> from_number]),
            detection_history, <<>>, reply, calls, raised, env)

\* A text handler's return: storage and records are not touched.
ReturnText(from_number, message, greeted2, state2, reply, calls, raised, env) ==
    Deliver(from_number, message, greeted2, state2, storage,
            detection_history, <<>>, reply, calls, raised, env)

(***************************************************************************)
(* message_handler.py: handle_text_message.                                *)
(***************************************************************************)
TextVerdictReply(result) ==
    (IF result.is_ai
     THEN <<"AI-GENERATED TEXT DETECTED">>
     ELSE IF result.prediction = "Human"
     THEN <<"AUTHENTIC HUMAN TEXT">>
     ELSE <<"UNCERTAIN">>)
    \o <<"Confidence", result.confidence_percent,
         "Prediction", result.prediction,
         "Agreement", Get(result, "agreement", "N/A"),
         "Model: Ensemble-AI-Detector-v3", HELP_MESSAGE>>

\* Mutant: the state is kept while a text is analysed.
ResetState_Keep(state, from_number) == state

\* Line 64: user_state[from_number] = None, before the text is looked at.
ResetState(state, from_number) == Put(state, from_number, None)

AnalyzeText(from_number, text_body, message) ==
    LET reset == ResetState(user_state, from_number) IN
    IF TextTooShort(text_body)
    THEN ReturnText(from_number, message, user_greeted, reset,
                    <<"Text too short", HELP_MESSAGE>>, <<>>, FALSE, NoEnv)
    ELSE \E out \in TextDetectorOutcomes :
        LET r == detect_text_ai(Len(strip(text_body)), out)
            env == [detector |-> out]
        IN
        IF r.raised = "ModalDetectionError"
        THEN ReturnText(from_number, message, user_greeted, reset,
                        <<"Error analyzing text", r.message, HELP_MESSAGE>>,
                        r.calls, FALSE, env)
        ELSE IF r.raised # ""
        THEN \* KeyError: not caught by the handler
             ReturnText(from_number, message, user_greeted, reset,
                        NoReply, r.calls, TRUE, env)
        ELSE IF Get(r.response, "success", FALSE)
        THEN ReturnText(from_number, message, user_greeted, reset,
                        TextVerdictReply(r.response.result), r.calls, FALSE,
                        env)
        ELSE ReturnText(from_number, message, user_greeted, reset,
                        <<"Text analysis failed", HELP_MESSAGE>>, r.calls,
                        FALSE, env)

handle_text_message(from_number, text_body, message) ==
    LET user_text == user_text_of(text_body) IN
    IF NeedsGreeting(user_greeted, from_number)
    THEN ReturnText(from_number, message, user_greeted \cup {from_number},
                    Put(user_state, from_number, None),
                    <<WELCOME_MESSAGE>>, <<>>, FALSE, NoEnv)
    ELSE IF user_text \in GreetingCommands
    THEN ReturnText(from_number, message, user_greeted,
                    Put(user_state, from_number, None),
                    <<WELCOME_MESSAGE>>, <<>>, FALSE, NoEnv)
    ELSE IF user_text \in HelpCommands
    THEN ReturnText(from_number, message, user_greeted, user_state,
                    <<HELP_MESSAGE>>, <<>>, FALSE, NoEnv)
    ELSE IF user_text \in ImageCommands
    THEN ReturnText(from_number, message, user_greeted,
                    Put(user_state, from_number, "image"),
                    <<"Please send me an image">>, <<>>, FALSE, NoEnv)
    ELSE IF user_text \in VideoCommands
    THEN ReturnText(from_number, message, user_greeted,
                    Put(user_state, from_number, "video"),
                    <<"Please send me a video">>, <<>>, FALSE, NoEnv)
    ELSE IF user_text \in TextCommands
    THEN ReturnText(from_number, message, user_greeted,
                    Put(user_state, from_number, "text"),
                    <<"Please send me the text">>, <<>>, FALSE, NoEnv)
    ELSE IF AwaitingText(user_state, from_number)
    THEN AnalyzeText(from_number, text_body, message)
    ELSE ReturnText(from_number, message, user_greeted, user_state,
                    <<"I'm not sure what you'd like to do", WELCOME_MESSAGE>>,
                    <<>>, FALSE, NoEnv)

(***************************************************************************)
(* config.py FILE_TYPE_MAPPINGS and storage_service.py: classification.    *)
(* Dict order is image, video, document.                                   *)
(***************************************************************************)
FILE_TYPE_MAPPINGS ==
    [image |->
        [extensions |-> {"jpg", "jpeg", "png", "gif", "webp", "heic"},
         bucket |-> "image-uploads",
         mime_types |-> { <<"image","jpeg">>, <<"image","png">>,
                          <<"image","gif">>, <<"image","webp">>,
                          <<"image","heic">> }],
     video |->
        [extensions |-> {"mp4", "mov", "avi", "mkv", "webm"},
         bucket |-> "video-uploads",
         mime_types |-> { <<"video","mp4">>, <<"video","quicktime">>,
                          <<"video","x-msvideo">>, <<"video","x-matroska">>,
                          <<"video","webm">> }],
     document |->
        [extensions |-> {"pdf", "doc", "docx", "txt", "csv"},
         bucket |-> "text-uploads",
         mime_types |-> { <<"application","pdf">>, <<"application","msword">>,
                          <<"application","vnd.openxmlformats-officedocument.wordprocessingml.document">>,
                          <<"text","plain">>, <<"text","csv">> }]]

\* str.lower() on a file-name part.
lower_word(w) ==
    CASE w = "MP4" -> "mp4"
      [] w = "PNG" -> "png"
      [] w = "PDF" -> "pdf"
      [] OTHER -> w

\* mimetypes.guess_extension, without its leading dot; None for unknown types.
guess_extension(mime_type) ==
    CASE mime_type = <<"image","jpeg">> -> "jpg"
      [] mime_type = <<"image","png">> -> "png"
      [] mime_type = <<"image","bmp">> -> "bmp"
      [] mime_type = <<"video","mp4">> -> "mp4"
      [] mime_type = <<"application","pdf">> -> "pdf"
      [] mime_type = <<"text","plain">> -> "txt"
      [] OTHER -> None

\* A file name is the sequence of its dot-separated parts; <<>> is no name.
\* Mutant: the mime type is asked first.
get_file_extension_MimeFirst(filename, mime_type) ==
    IF mime_type # <<>> /\ guess_extension(mime_type) # None
    THEN guess_extension(mime_type)
    ELSE IF Len(filename) >= 2
    THEN lower_word(filename[Len(filename)])
    ELSE None

get_file_extension(filename, mime_type) ==
    IF Len(filename) >= 2
    THEN lower_word(filename[Len(filename)])
    ELSE IF mime_type # <<>>
    THEN guess_extension(mime_type)
    ELSE None

\* The first category, in dict order, whose extensions hold the extension.
TypeOfExtension(extension) ==
    IF extension \in FILE_TYPE_MAPPINGS["image"].extensions THEN "image"
    ELSE IF extension \in FILE_TYPE_MAPPINGS["video"].extensions THEN "video"
    ELSE IF extension \in FILE_TYPE_MAPPINGS["document"].extensions
    THEN "document"
    ELSE None

\* The first category, in dict order, whose mime types hold the mime type.
TypeOfMime(mime_type) ==
    IF mime_type \in FILE_TYPE_MAPPINGS["image"].mime_types THEN "image"
    ELSE IF mime_type \in FILE_TYPE_MAPPINGS["video"].mime_types THEN "video"
    ELSE IF mime_type \in FILE_TYPE_MAPPINGS["document"].mime_types
    THEN "document"
    ELSE None

\* Mutant: no default for a pair that matches nothing.
determine_file_type_and_bucket_NoDefault(extension, mime_type) ==
    LET byExt == IF extension # None /\ extension # ""
                 THEN TypeOfExtension(extension) ELSE None
        byMime == IF mime_type # <<>> THEN TypeOfMime(mime_type) ELSE None
    IN  IF byExt # None
        THEN <<byExt, FILE_TYPE_MAPPINGS[byExt].bucket>>
        ELSE IF byMime # None
        THEN <<byMime, FILE_TYPE_MAPPINGS[byMime].bucket>>
        ELSE <<None, None>>

determine_file_type_and_bucket(extension, mime_type) ==
    LET byExt == IF extension # None /\ extension # ""
                 THEN TypeOfExtension(extension) ELSE None
        byMime == IF mime_type # <<>> THEN TypeOfMime(mime_type) ELSE None
    IN  IF byExt # None
        THEN <<byExt, FILE_TYPE_MAPPINGS[byExt].bucket>>
        ELSE IF byMime # None
        THEN <<byMime, FILE_TYPE_MAPPINGS[byMime].bucket>>
        ELSE <<"document", "text-uploads">>

(***************************************************************************)
(* message_handler.py: handle_media_message, the checks before the         *)
(* pipeline (lines 119-181).                                               *)
(***************************************************************************)
\* str.startswith(major + "/") on a mime type.
StartsWithMajor(mime_type, major) == Len(mime_type) >= 2 /\ mime_type[1] = major

\* Mutant: an image is not checked against the selected mode.
ModeMismatch_NoImageCheck(msg_type, expected_state, payload) ==
    IF msg_type = "video" /\ expected_state # "video"
    THEN <<"You selected option", expected_state, "but sent a video">>
    ELSE IF msg_type = "document"
    THEN LET mime_type == Get(payload, "mime_type", <<>>) IN
         IF expected_state = "image" /\ ~StartsWithMajor(mime_type, "image")
         THEN <<"You selected 'image' but sent a document">>
         ELSE IF expected_state = "video" /\ ~StartsWithMajor(mime_type, "video")
         THEN <<"You selected 'video' but sent a document">>
         ELSE <<>>
    ELSE <<>>

\* Mutant: a document's mime type is checked in image mode only.
ModeMismatch_NoVideoDocCheck(msg_type, expected_state, payload) ==
    IF msg_type = "image" /\ expected_state # "image"
    THEN <<"You selected option", expected_state, "but sent an image">>
    ELSE IF msg_type = "video" /\ expected_state # "video"
    THEN <<"You selected option", expected_state, "but sent a video">>
    ELSE IF msg_type = "document"
    THEN LET mime_type == Get(payload, "mime_type", <<>>) IN
         IF expected_state = "image" /\ ~StartsWithMajor(mime_type, "image")
         THEN <<"You selected 'image' but sent a document">>
         ELSE <<>>
    ELSE <<>>

\* The reason the message is turned away for, <<>> when it passes.
ModeMismatch(msg_type, expected_state, payload) ==
    IF msg_type = "image" /\ expected_state # "image"
    THEN <<"You selected option", expected_state, "but sent an image">>
    ELSE IF msg_type = "video" /\ expected_state # "video"
    THEN <<"You selected option", expected_state, "but sent a video">>
    ELSE IF msg_type = "document"
    THEN LET mime_type == Get(payload, "mime_type", <<>>) IN
         IF expected_state = "image" /\ ~StartsWithMajor(mime_type, "image")
         THEN <<"You selected 'image' but sent a document">>
         ELSE IF expected_state = "video" /\ ~StartsWithMajor(mime_type, "video")
         THEN <<"You selected 'video' but sent a document">>
         ELSE <<>>
    ELSE <<>>

DefaultMime(msg_type) ==
    CASE msg_type = "image" -> <<"image","jpeg">>
      [] msg_type = "video" -> <<"video","mp4">>
      [] OTHER -> <<"application","octet-stream">>

\* The extension put on a generated file name (lines 161, 168, 175).
DefaultExt(msg_type, mime_type) ==
    LET last_part == IF Len(mime_type) >= 2 THEN mime_type[Len(mime_type)]
                     ELSE CASE msg_type = "image" -> "jpg"
                            [] msg_type = "video" -> "mp4"
                            [] OTHER -> "bin"
    IN  IF msg_type = "image" /\ \E i \in 1..Len(mime_type) : mime_type[i] = "jpeg"
        THEN "jpg"
        ELSE last_part

OriginalFilename(msg_type, payload) ==
    LET given == Get(payload, "filename", <<>>)
        mime_type == Get(payload, "mime_type", DefaultMime(msg_type))
    IN  IF Len(given) < 2
        THEN <<CASE msg_type = "image" -> "image_ts"
                 [] msg_type = "video" -> "video_ts"
                 [] OTHER -> "document_ts",
               DefaultExt(msg_type, mime_type)>>
        ELSE given

\* process_whatsapp_message, lines 645-647: a failed media message's reply.
ErrorReply(msg_type, reason) == <<"Error processing", msg_type>> \o reason

\* Mutant: a failed media message also resets the sender's state.
ReturnFalse_ResetsState(from_number, message, greeted2, state2, storage2, history2, direct, reason, calls, env) ==
    Deliver(from_number, message, greeted2, Put(state2, from_number, None),
            storage2, history2, direct, ErrorReply(message.type, reason),
            calls, FALSE, env)

ReturnFalse(from_number, message, greeted2, state2, storage2, history2, direct, reason, calls, env) ==
    Deliver(from_number, message, greeted2, state2, storage2, history2,
            direct, ErrorReply(message.type, reason), calls, FALSE, env)

(***************************************************************************)
(* The detectors' answers (modal_service.py) and the record updates.       *)
(* Confidences are in thousandths; int(confidence * 100) truncates.        *)
(***************************************************************************)
IntPercent(confidence) == confidence \div 10

VideoOutcomes ==
    { [kind |-> "response",
       response |->
           [final_verdict |-> "FAKE", confidence |-> 875,
            layer_results |->
                <<[layer_name |-> "Visual Artifacts", is_fake |-> TRUE],
                  [layer_name |-> "Temporal Consistency", is_fake |-> TRUE],
                  [layer_name |-> "Audio Sync", is_fake |-> FALSE]>>]],
      [kind |-> "response",
       response |->
           [final_verdict |-> "REAL", confidence |-> 120,
            layer_results |->
                <<[layer_name |-> "Visual Artifacts", is_fake |-> FALSE],
                  [layer_name |-> "Metadata", is_fake |-> FALSE]>>]],
      [kind |-> "response",
       response |-> [final_verdict |-> "UNCERTAIN", confidence |-> 500]],
      [kind |-> "response", response |-> [confidence |-> 500]],
      [kind |-> "response", response |-> [error |-> "No face found"]],
      [kind |-> "request_exception", response |-> [detail |-> "timeout"]] }

\* detect_video_multimodal: an "error" answer and a transport failure both raise.
detect_video_multimodal(out) ==
    IF out.kind = "request_exception"
    THEN [raised |-> "ModalDetectionError",
          message |-> "Failed to process video", response |-> out.response]
    ELSE IF "error" \in DOMAIN out.response
    THEN [raised |-> "ModalDetectionError",
          message |-> out.response.error, response |-> out.response]
    ELSE [raised |-> "", message |-> "", response |-> out.response]

upper_char(c) ==
    CASE c = "a" -> "A"
      [] c = "b" -> "B"
      [] c = "c" -> "C"
      [] c = "d" -> "D"
      [] c = "e" -> "E"
      [] c = "f" -> "F"
      [] c = "g" -> "G"
      [] c = "h" -> "H"
      [] c = "i" -> "I"
      [] c = "j" -> "J"
      [] c = "k" -> "K"
      [] c = "l" -> "L"
      [] c = "m" -> "M"
      [] c = "n" -> "N"
      [] c = "o" -> "O"
      [] c = "p" -> "P"
      [] c = "q" -> "Q"
      [] c = "r" -> "R"
      [] c = "s" -> "S"
      [] c = "t" -> "T"
      [] c = "u" -> "U"
      [] c = "v" -> "V"
      [] c = "w" -> "W"
      [] c = "x" -> "X"
      [] c = "y" -> "Y"
      [] c = "z" -> "Z"
      [] OTHER -> c

upper(s) == [i \in 1..Len(s) |-> upper_char(s[i])]

\* Python's `sub in s` on strings.
Contains(s, sub) ==
    \E i \in 1..(Len(s) - Len(sub) + 1) : SubSeq(s, i, i + Len(sub) - 1) = sub

\* JSON null in a text field and in a number field of an answer.
NullText == <<"null">>

NullNumber == -1

ImageOutcomes ==
    { [kind |-> "response",
       response |-> [top_prediction |-> <<"A","I">>, confidence |-> 910]],
      [kind |-> "response",
       response |-> [label |-> <<"r","e","a","l">>, score |-> 640]],
      [kind |-> "response", response |-> [predictions |-> "[]"]],
      [kind |-> "response",
       response |-> [top_prediction |-> NullText,
                     label |-> <<"G","e","n","e","r","a","t","e","d">>,
                     confidence |-> NullNumber]],
      [kind |-> "response",
       response |-> [prediction |-> NullText, confidence |-> 700]],
      [kind |-> "response",
       response |-> [top_prediction |-> <<"f","a","k","e">>,
                     score |-> NullNumber]],
      [kind |-> "request_exception", response |-> [detail |-> "timeout"]] }

detect_image_ai(out) ==
    IF out.kind = "request_exception"
    THEN [raised |-> "ModalDetectionError",
          message |-> "Image detection failed", response |-> out.response]
    ELSE [raised |-> "", message |-> "", response |-> out.response]

\* Lines 317-319: a.get('top_prediction') or a.get('label') or
\* a.get('prediction', ''); None and '' are falsy.
ImageLabel(modal_response) ==
    IF Get(modal_response, "top_prediction", NullText) \notin {<<>>, NullText}
    THEN modal_response.top_prediction
    ELSE IF Get(modal_response, "label", NullText) \notin {<<>>, NullText}
    THEN modal_response.label
    ELSE Get(modal_response, "prediction", <<>>)

\* .upper() of the label, for a label that is a text.
ImageTopPred(modal_response) == upper(ImageLabel(modal_response))

ImageIsFake(top_pred) ==
    \/ Contains(top_pred, <<"A","I">>)
    \/ Contains(top_pred, <<"F","A","K","E">>)
    \/ Contains(top_pred, <<"G","E","N","E","R","A","T","E","D">>)

\* Line 321: a.get('confidence') or a.get('score', 0.5); None and 0 are
\* falsy.
ImageConfidence(modal_response) ==
    IF Get(modal_response, "confidence", NullNumber) \notin {0, NullNumber}
    THEN modal_response.confidence
    ELSE Get(modal_response, "score", 500)

\* What reading the answer raises, "" when nothing: None.upper() at line
\* 319, int(None * 100) at line 327.
ImageAnswerRaises(modal_response) ==
    IF ImageLabel(modal_response) = NullText
    THEN "'NoneType' object has no attribute 'upper'"
    ELSE IF ImageConfidence(modal_response) = NullNumber
    THEN "unsupported operand type(s) for *: 'NoneType' and 'int'"
    ELSE ""

(***************************************************************************)
(* document_extraction.py: the extracted text is known by its length (the  *)
(* extractors return it stripped); -1 stands for an extraction that raises.*)
(***************************************************************************)
MIN_DOC_CHARS == 20

MAX_DOC_CHARS == 100000

ExtractOutcomes == {-1, 0, 19, 20, 100001}

\* Mutant: only texts that are too short or empty are turned away.
is_valid_document_for_detection_NoMax(char_count) ==
    IF char_count = 0 THEN "No text content found in document"
    ELSE IF char_count < MIN_DOC_CHARS THEN "Document too short"
    ELSE ""

\* The validation's error message, "" when the text is valid.
is_valid_document_for_detection(char_count) ==
    IF char_count = 0 THEN "No text content found in document"
    ELSE IF char_count < MIN_DOC_CHARS THEN "Document too short"
    ELSE IF char_count > MAX_DOC_CHARS THEN "Document too long"
    ELSE ""

\* Mutant: the update goes to the oldest record.
UpdateRecord_FirstRow(history, record_id, fields) ==
    [history EXCEPT ![1] =
        [k \in DOMAIN @ |-> IF k \in DOMAIN fields THEN fields[k] ELSE @[k]]]

\* client.table("detection_history").update(fields).eq("id", record_id)
UpdateRecord(history, record_id, fields) ==
    [history EXCEPT ![record_id] =
        [k \in DOMAIN @ |-> IF k \in DOMAIN fields THEN fields[k] ELSE @[k]]]

\* str(e) of the exception a failing update raises.
UpdateError == "update failed"

\* str(e) of the exception extract_text_from_document raises.
ExtractionError == "Document extraction failed"

(***************************************************************************)
(* message_handler.py: format_media_response.  The rendering is chosen by  *)
(* the message's type; detection is the dict stored in result.             *)
(***************************************************************************)
\* Lines 528-540: 'Visual', 'Temporal' or 'Audio' in the layer's name picks
\* the short name; any other name is shown as it is.
LayerLabel(layer_name) ==
    CASE layer_name = "Visual Artifacts" -> "Visual Check"
      [] layer_name = "Temporal Consistency" -> "Temporal Check"
      [] layer_name = "Audio Sync" -> "Audio Check"
      [] OTHER -> layer_name

\* Line 542: one line of the breakdown.
LayerLine(lr) ==
    LayerLabel(Get(lr, "layer_name", "Unknown")) \o ": "
        \o (IF Get(lr, "is_fake", FALSE) THEN "FAKE" ELSE "REAL")

\* Lines 523-542: the lines of detection.get('layer_results', []).
LayerLines(detection) ==
    LET layer_results == Get(detection, "layer_results", <<>>)
    IN  [i \in 1..Len(layer_results) |-> LayerLine(layer_results[i])]

\* Mutant: the breakdown is left out of a video's reply.
format_media_response_NoBreakdown(msg_type, file_type, detection) ==
    LET head == <<msg_type, "uploaded successfully", "Type", file_type>>
        error == Get(detection, "error", "")
    IN  IF error # ""
        THEN head \o <<"Detection Error", error>>
             \o <<"Please try again or contact support.">>
        ELSE IF msg_type = "video"
        THEN head
             \o (IF Get(detection, "final_verdict", "UNKNOWN") = "FAKE"
                 THEN <<"DEEPFAKE DETECTED">> ELSE <<"AUTHENTIC VIDEO">>)
             \o <<"Model: Balanced-3Layer-Pipeline-v1">>
        ELSE head

format_media_response(msg_type, file_type, detection) ==
    LET head == <<msg_type, "uploaded successfully", "Type", file_type>>
        error == Get(detection, "error", "")
    IN  IF error # ""
        THEN head \o <<"Detection Error", error>>
             \o (IF Get(detection, "extraction_success", FALSE)
                 THEN <<"Text extraction: Success">> ELSE <<>>)
             \o <<"Please try again or contact support.">>
        ELSE IF msg_type = "video"
        THEN head
             \o (IF Get(detection, "final_verdict", "UNKNOWN") = "FAKE"
                 THEN <<"DEEPFAKE DETECTED">> ELSE <<"AUTHENTIC VIDEO">>)
             \o <<"Analysis Breakdown">> \o LayerLines(detection)
             \o <<"Model: Balanced-3Layer-Pipeline-v1">>
        ELSE IF msg_type = "image"
        THEN head
             \o (IF Get(detection, "is_ai_generated", FALSE)
                 THEN <<"AI-GENERATED IMAGE">> ELSE <<"REAL PHOTOGRAPH">>)
             \o <<"Classification", "Model: EfficientFormer-S2V1">>
        ELSE IF msg_type = "document"
        THEN head
             \o (IF Get(detection, "is_ai", FALSE)
                 THEN <<"AI-GENERATED TEXT DETECTED">>
                 ELSE IF Get(detection, "prediction", "UNKNOWN") = "Human"
                 THEN <<"AUTHENTIC HUMAN TEXT">>
                 ELSE <<"UNCERTAIN">>)
             \o <<"Prediction", Get(detection, "prediction", "UNKNOWN"),
                  "Model: Ensemble-AI-Detector-v3">>
        ELSE head

(***************************************************************************)
(* handle_media_message, lines 471-478: the two ways the detect step ends. *)
(* ctx carries the run so far: msg_type, file_type, storage, record_id,    *)
(* calls.                                                                  *)
(***************************************************************************)
\* Lines 471-474: the state is reset and (True, result) is returned.
\* Mutant: the mode is left as it is found.
ReturnTrue_KeepsState(from_number, message, ctx, history2, detection, calls, env) ==
    /\ Deliver(from_number, message, user_greeted, user_state, ctx.storage,
               history2, <<>>,
               format_media_response(ctx.msg_type, ctx.file_type, detection),
               ctx.calls \o calls, FALSE, env @@ ctx.env)

ReturnTrue(from_number, message, ctx, history2, detection, calls, env) ==
    /\ Deliver(from_number, message, user_greeted,
               Put(user_state, from_number, None), ctx.storage, history2,
               <<>>,
               format_media_response(ctx.msg_type, ctx.file_type, detection),
               ctx.calls \o calls, FALSE, env @@ ctx.env)

\* Mutant: the exception leaves the handler.
ReturnException_Raises(from_number, message, ctx, history2, error, calls, env) ==
    /\ Deliver(from_number, message, user_greeted, user_state, ctx.storage,
               history2, <<>>, NoReply, ctx.calls \o calls, TRUE,
               env @@ ctx.env)

\* Lines 476-478: an exception reaches the outer handler; (False, str(e)).
ReturnException(from_number, message, ctx, history2, error, calls, env) ==
    /\ ReturnFalse(from_number, message, user_greeted, user_state,
                   ctx.storage, history2, <<>>, <<error>>,
                   ctx.calls \o calls, env @@ ctx.env)

\* The error branches' own update (lines 293-300, 349-356, 438-449, 462-469):
\* a failing update is swallowed.
\* Mutant: the error branches write nothing.
MarkError_Never(history, record_id, error, upd) == history

\* Mutant: the error status reaches the record although the write failed.
MarkError_Always(history, record_id, error, upd) ==
    [history EXCEPT ![record_id] =
        [@ EXCEPT !.detection_result = "error", !.error = error]]

MarkError(history, record_id, error, upd) ==
    IF upd
    THEN UpdateRecord(history, record_id,
                      [detection_result |-> "error", error |-> error])
    ELSE history

(***************************************************************************)
(* handle_media_message, lines 236-469: the detect step, by file_type.     *)
(* ctx.history holds the records after the insert.                         *)
(***************************************************************************)
\* Lines 237-300.  Any exception of the try block, the update's included,
\* is caught and turned into an error result.
DetectVideo(from_number, message, ctx) ==
    \E out \in VideoOutcomes :
        LET r == detect_video_multimodal(out) IN
        IF r.raised # ""
        THEN \E err_upd \in BOOLEAN :
             ReturnTrue(from_number, message, ctx,
                 MarkError(ctx.history, ctx.record_id, r.message, err_upd),
                 [error |-> r.message, error_type |-> r.raised],
                 <<"detect_video", "update">>,
                 [detector |-> out, error_update |-> err_upd])
        ELSE \E upd \in BOOLEAN :
             IF upd
             THEN ReturnTrue(from_number, message, ctx,
                      UpdateRecord(ctx.history, ctx.record_id,
                          [detection_result |->
                               Get(r.response, "final_verdict", None),
                           confidence_score |->
                               IntPercent(Get(r.response, "confidence", 0))]),
                      r.response, <<"detect_video", "update">>,
                      [detector |-> out, update |-> TRUE])
             ELSE \E err_upd \in BOOLEAN :
                  ReturnTrue(from_number, message, ctx,
                      MarkError(ctx.history, ctx.record_id, UpdateError,
                                err_upd),
                      [error |-> UpdateError, error_type |-> "APIError"],
                      <<"detect_video", "update", "update">>,
                      [detector |-> out, update |-> FALSE,
                       error_update |-> err_upd])

\* Lines 303-361.  Only ModalDetectionError is caught here; a failing update
\* reaches the outer handler.
DetectImage(from_number, message, ctx) ==
    \E out \in ImageOutcomes :
        LET r == detect_image_ai(out)
            top_pred == ImageTopPred(r.response)
            is_fake == ImageIsFake(top_pred)
            confidence == ImageConfidence(r.response)
        IN  IF r.raised = "ModalDetectionError"
            THEN \E err_upd \in BOOLEAN :
                 ReturnTrue(from_number, message, ctx,
                     MarkError(ctx.history, ctx.record_id, r.message, err_upd),
                     [error |-> r.message,
                      error_type |-> "ModalDetectionError"],
                     <<"detect_image", "update">>,
                     [detector |-> out, error_update |-> err_upd])
            ELSE IF ImageAnswerRaises(r.response) # ""
            THEN ReturnException(from_number, message, ctx, ctx.history,
                     ImageAnswerRaises(r.response), <<"detect_image">>,
                     [detector |-> out])
            ELSE \E upd \in BOOLEAN :
                 IF upd
                 THEN ReturnTrue(from_number, message, ctx,
                          UpdateRecord(ctx.history, ctx.record_id,
                              [detection_result |->
                                   IF is_fake THEN "FAKE" ELSE "REAL",
                               confidence_score |-> IntPercent(confidence)]),
                          [final_verdict |-> IF is_fake THEN "FAKE" ELSE "REAL",
                           confidence |-> confidence,
                           top_prediction |-> top_pred,
                           is_ai_generated |-> is_fake],
                          <<"detect_image", "update">>,
                          [detector |-> out, update |-> TRUE])
                 ELSE ReturnException(from_number, message, ctx, ctx.history,
                          UpdateError, <<"detect_image", "update">>,
                          [detector |-> out, update |-> FALSE])

\* Lines 364-469.  Every exception of the try block is caught.
DetectDocument(from_number, message, ctx) ==
    \E char_count \in ExtractOutcomes :
        LET validation_error == is_valid_document_for_detection(char_count)
            Failed(error, calls, env) ==
                \* lines 451-469
                \E err_upd \in BOOLEAN :
                ReturnTrue(from_number, message, ctx,
                    MarkError(ctx.history, ctx.record_id, error, err_upd),
                    [error |-> error, error_type |-> "Exception"],
                    calls \o <<"update">>,
                    [error_update |-> err_upd] @@ env)
        IN  IF char_count < 0
            THEN Failed(ExtractionError, <<>>, [char_count |-> char_count])
            ELSE IF validation_error # ""
            THEN \E err_upd \in BOOLEAN :
                 ReturnTrue(from_number, message, ctx,
                     MarkError(ctx.history, ctx.record_id, validation_error,
                               err_upd),
                     [error |-> validation_error, extraction_success |-> TRUE],
                     <<"update">>,
                     [char_count |-> char_count, error_update |-> err_upd])
            ELSE \E out \in TextDetectorOutcomes :
                LET r == detect_text_ai(char_count, out)
                    env == [char_count |-> char_count, detector |-> out]
                IN
                IF r.raised # ""
                THEN Failed(r.message, r.calls, env)
                ELSE IF Get(r.response, "success", FALSE)
                THEN \E upd \in BOOLEAN :
                     IF upd
                     THEN ReturnTrue(from_number, message, ctx,
                              UpdateRecord(ctx.history, ctx.record_id,
                                  [detection_result |->
                                       IF r.response.result.is_ai
                                       THEN "FAKE" ELSE "REAL",
                                   confidence_score |-> IntPercent(
                                       r.response.result.confidence)]),
                              [prediction |-> r.response.result.prediction,
                               confidence |-> r.response.result.confidence,
                               is_ai |-> r.response.result.is_ai,
                               extraction_success |-> TRUE],
                              r.calls \o <<"update">>,
                              [update |-> TRUE] @@ env)
                     ELSE Failed(UpdateError, r.calls \o <<"update">>,
                                 [update |-> FALSE] @@ env)
                ELSE ReturnTrue(from_number, message, ctx, ctx.history,
                         [error |-> Get(r.response, "error",
                                        "Text detection failed"),
                          extraction_success |-> TRUE],
                         r.calls, env)

(***************************************************************************)
(* handle_media_message, the whole handler.                                *)
(***************************************************************************)
\* whatsapp_service.py download_whatsapp_media: (None, None, None) on any
\* failure, else the bytes and the mime type the media endpoint reports
\* (<<>> when it reports none).
DownloadOutcomes ==
    { [ok |-> FALSE, mime_type |-> <<>>],
      [ok |-> TRUE, mime_type |-> <<>>],
      [ok |-> TRUE, mime_type |-> <<"image","png">>],
      [ok |-> TRUE, mime_type |-> <<"video","mp4">>] }

\* Mutant: the upload leaves nothing in the bucket.
upload_to_supabase_Discards(store, bucket_name, from_number) == store

\* storage_service.py upload_to_supabase, when it succeeds: the asset is in
\* the bucket under the sender's key.
upload_to_supabase(store, bucket_name, from_number) ==
    Append(store, [bucket |-> bucket_name, session_id |-> from_number])

\* storage_service.py store_detection_history, when it succeeds.
store_detection_history(history, from_number, file_type) ==
    Append(history, [session_id |-> from_number,
                     file_type |-> file_type,
                     detection_result |-> "pending",
                     confidence_score |-> 0,
                     error |-> ""])

\* Lines 186-234: download, classify, upload, persist; then the detect step.
IntakePipeline(from_number, message, payload) ==
    LET msg_type == message.type
        original_filename == OriginalFilename(msg_type, payload)
    IN
    \E dl \in DownloadOutcomes :
        IF ~dl.ok
        THEN ReturnFalse(from_number, message, user_greeted, user_state,
                 storage, detection_history, <<>>,
                 <<"Failed to download file from WhatsApp">>, <<"download">>,
                 [download |-> dl])
        ELSE
        LET mime_type == IF dl.mime_type # <<>> THEN dl.mime_type
                         ELSE Get(payload, "mime_type", DefaultMime(msg_type))
            extension == get_file_extension(original_filename, mime_type)
            ftb == determine_file_type_and_bucket(extension, mime_type)
            file_type == ftb[1]
            bucket_name == ftb[2]
        IN
        \E up \in BOOLEAN :
            IF ~up
            THEN ReturnFalse(from_number, message, user_greeted, user_state,
                     storage, detection_history, <<>>,
                     <<"Failed to upload file to storage">>,
                     <<"download", "upload">>,
                     [download |-> dl, upload |-> FALSE])
            ELSE
            LET storage2 == upload_to_supabase(storage, bucket_name,
                                               from_number)
            IN
            \E ins \in BOOLEAN :
                IF ~ins
                THEN ReturnFalse(from_number, message, user_greeted,
                         user_state, storage2, detection_history, <<>>,
                         <<"Failed to store file metadata">>,
                         <<"download", "upload", "insert">>,
                         [download |-> dl, upload |-> TRUE, insert |-> FALSE])
                ELSE
                LET record_id == Len(detection_history) + 1
                    ctx == [msg_type |-> msg_type,
                            file_type |-> file_type,
                            storage |-> storage2,
                            record_id |-> record_id,
                            history |-> store_detection_history(
                                detection_history, from_number, file_type),
                            calls |-> <<"download", "upload", "insert">>,
                            env |-> [download |-> dl, upload |-> TRUE,
                                     insert |-> TRUE]]
                IN  CASE file_type = "video" ->
                             DetectVideo(from_number, message, ctx)
                      [] file_type = "image" ->
                             DetectImage(from_number, message, ctx)
                      [] OTHER ->
                             DetectDocument(from_number, message, ctx)

\* handle_media_message while fewer than max_uploads objects are stored.
HandleMedia(from_number, message, max_uploads) ==
    LET msg_type == message.type
        expected_state == Get(user_state, from_number, None)
        payload == Get(message, msg_type, <<>>)
        mismatch == ModeMismatch(msg_type, expected_state, payload)
    IN
    IF NeedsGreeting(user_greeted, from_number)
    THEN ReturnFalse(from_number, message, user_greeted \cup {from_number},
             Put(user_state, from_number, None), storage, detection_history,
             <<<<WELCOME_MESSAGE>>>>,
             <<"Please choose an option first (1 for Image, 2 for Video, 3 for Text)">>,
             <<>>, NoEnv)
    ELSE IF NoModeChosen(expected_state)
    THEN ReturnFalse(from_number, message, user_greeted, user_state, storage,
             detection_history, <<>>,
             <<"Please choose an option first:", "1 Image", "2 Video", "3 Text">>,
             <<>>, NoEnv)
    ELSE IF mismatch # <<>>
    THEN ReturnFalse(from_number, message, user_greeted, user_state, storage,
             detection_history, <<>>, mismatch, <<>>, NoEnv)
    ELSE IF "id" \notin DOMAIN payload
    THEN ReturnFalse(from_number, message, user_greeted, user_state, storage,
             detection_history, <<>>, <<"No media ID found">>, <<>>, NoEnv)
    ELSE /\ Len(storage) < max_uploads
         /\ IntakePipeline(from_number, message, payload)

handle_media_message(from_number, message) ==
    HandleMedia(from_number, message, MaxUploads)

(***************************************************************************)
(* process_whatsapp_message and the webhook: one action per message type.  *)
(***************************************************************************)
Ids == {"u1", "u2"}

\* Text bodies a sender may type: every command word, some of them padded
\* or in upper case, and other texts around the 20-character limit.
TextBodies ==
    Commands
    \cup { <<" ","I","m","a","g","e","\n">>, <<"H","E","L","L","O">>,
           <<"T","X","T">>, <<"\t","V","i","d">>, <<"H","e","l","p"," ">>,
           <<>>, <<"h","i"," ","a","l","l">>,
           Rep("a", 19), Rep("a", 20),
           <<" ">> \o Rep("a", 19) \o <<"\n">> }

Filenames == { <<"clip","MP4">> }

Payloads ==
    { [id |-> "m1", mime_type |-> m] :
          m \in { <<"image","jpeg">>, <<"video","mp4">>,
                  <<"application","pdf">> } }
    \cup { [id |-> "m1", mime_type |-> <<"image","jpeg">>, filename |-> f] :
               f \in Filenames }
    \cup { [id |-> "m1"], [mime_type |-> <<"image","jpeg">>] }

MediaMessages ==
    { [type |-> "image", image |-> p] : p \in Payloads }
    \cup { [type |-> "video", video |-> p] : p \in Payloads }
    \cup { [type |-> "document", document |-> p] : p \in Payloads }

OtherMessages == { [type |-> "audio"] }

ReceiveText(from_number, text_body) ==
    handle_text_message(from_number, text_body,
                        [type |-> "text", text |-> [body |-> text_body]])

ReceiveMedia(from_number, message) ==
    handle_media_message(from_number, message)

\* Lines 650-656: any other type.
ReceiveOther(from_number, message) ==
    IF NeedsGreeting(user_greeted, from_number)
    THEN Deliver(from_number, message, user_greeted \cup {from_number},
                 user_state, storage, detection_history, <<>>,
                 <<WELCOME_MESSAGE>>, <<>>, FALSE, NoEnv)
    ELSE Deliver(from_number, message, user_greeted, user_state, storage,
                 detection_history, <<>>,
                 <<"Unsupported message type", message.type, HELP_MESSAGE>>,
                 <<>>, FALSE, NoEnv)

Init ==
    /\ user_greeted = {}
    /\ user_state = <<>>
    /\ storage = <<>>
    /\ detection_history = <<>>
    /\ last = [handled |-> FALSE, from |-> None, message |-> [type |-> None],
               pre_greeted |-> FALSE, pre_state |-> None, reply |-> NoReply,
               sent |-> <<>>, calls |-> <<>>, raised |-> FALSE,
               env |-> NoEnv]
    /\ call = NoCall

TextEventFrom(ids, bodies) ==
    \E id \in ids, b \in bodies : ReceiveText(id, b)

MediaEventFrom(ids, messages) ==
    \E id \in ids, m \in messages : ReceiveMedia(id, m)

OtherEventFrom(ids, messages) ==
    \E id \in ids, m \in messages : ReceiveOther(id, m)

\* One sender, every input.
Next ==
    \/ TextEventFrom({"u1"}, TextBodies)
    \/ MediaEventFrom({"u1"}, MediaMessages)
    \/ OtherEventFrom({"u1"}, OtherMessages)

Spec == Init /\ [][Next]_vars

\* Two senders whose events alternate freely, with fewer inputs each: a
\* greeting, one command per mode, a help word, and texts that are no command.
PairTextBodies ==
    { <<"h","i">>, <<"1">>, <<"2">>, <<"3">>, <<"?">>, <<>>,
      Rep("a", 19), Rep("a", 20) }

PairMediaMessages ==
    { [type |-> "image", image |-> [id |-> "m1"]],
      [type |-> "video", video |-> [id |-> "m1", mime_type |-> <<"video","mp4">>]],
      [type |-> "document",
       document |-> [id |-> "m1", mime_type |-> <<"application","pdf">>]] }

NextPair ==
    \/ TextEventFrom(Ids, PairTextBodies)
    \/ MediaEventFrom(Ids, PairMediaMessages)
    \/ OtherEventFrom(Ids, OtherMessages)

SpecPair == Init /\ [][NextPair]_vars

\* One sender, few inputs, and room for a second run of the pipeline.
MaxRuns == 2

RunTextBodies == { <<"h","i">>, <<"1">>, <<"2">>, <<"3">> }

NextRuns ==
    \/ TextEventFrom({"u1"}, RunTextBodies)
    \/ \E m \in PairMediaMessages : HandleMedia("u1", m, MaxRuns)

SpecRuns == Init /\ [][NextRuns]_vars

(***************************************************************************)
(* Vocabulary of the properties.                                           *)
(***************************************************************************)
IDLE == None

AWAITING_IMAGE == "image"

AWAITING_VIDEO == "video"

AWAITING_TEXT == "text"

Mode(id) == Get(user_state, id, None)

MediaTypes == {"image", "video", "document"}

IsTextEvent(e) == e.handled /\ e.message.type = "text"

IsMediaEvent(e) == e.handled /\ e.message.type \in MediaTypes

\* The text of a text event after trimming and lower-casing.
Normalized(e) == lower(strip(e.message.text.body))

WordsGreeting ==
    { <<"h","i">>, <<"h","e","l","l","o">>, <<"h","e","y">>,
      <<"s","t","a","r","t">> }

WordsHelp ==
    { <<"h","e","l","p">>, <<"i","n","f","o">>, <<"?">>,
      <<"s","u","p","p","o","r","t">> }

WordsImage ==
    { <<"1">>, <<"i","m","a","g","e">>, <<"p","h","o","t","o">>,
      <<"p","i","c","t","u","r","e">> }

WordsVideo == { <<"2">>, <<"v","i","d","e","o">>, <<"v","i","d">> }

WordsText == { <<"3">>, <<"t","e","x","t">>, <<"t","x","t">> }

WordsAll ==
    WordsGreeting \cup WordsHelp \cup WordsImage \cup WordsVideo \cup WordsText

DetectorCalls == {"detect_video", "detect_image", "detect_text"}

NoDetectorCall(e) == \A i \in 1..Len(e.calls) : e.calls[i] \notin DetectorCalls

ChooseFirstShort ==
    <<"Please choose an option first (1 for Image, 2 for Video, 3 for Text)">>

C2_ImageWordAlwaysSelects ==
    (IsTextEvent(last) /\ Normalized(last) \in WordsImage) =>
        Mode(last.from) = AWAITING_IMAGE

(***************************************************************************)
(* C2, amended.  For an already-greeted identifier, every text that trims  *)
(* and lower-cases to one of 1, image, photo, picture leaves the mode at   *)
(* AWAITING_IMAGE, whatever the mode was.                                  *)
(***************************************************************************)
C2_ImageWordSelectsWhenGreeted ==
    (IsTextEvent(last) /\ last.pre_greeted /\ Normalized(last) \in WordsImage)
        => Mode(last.from) = AWAITING_IMAGE

\* A padded, capitalised "Image" typed while text was awaited.
C2_Witness ==
    /\ IsTextEvent(last)
    /\ last.pre_greeted
    /\ last.pre_state = AWAITING_TEXT
    /\ last.message.text.body = <<" ","I","m","a","g","e","\n">>
    /\ Mode(last.from) = AWAITING_IMAGE

(***************************************************************************)
(* C3.  For an already-greeted identifier, a text that normalizes to 2,    *)
(* video or vid sets the mode to AWAITING_VIDEO, and one that normalizes   *)
(* to 3, text or txt sets it to AWAITING_TEXT, from any prior mode, with   *)
(* the matching prompt as reply; a command word received in AWAITING_TEXT  *)
(* is handled as a command: no detector is called for it.                  *)
(***************************************************************************)
C3_VideoAndTextWordsSelect ==
    (IsTextEvent(last) /\ last.pre_greeted) =>
        /\ Normalized(last) \in WordsVideo =>
               /\ Mode(last.from) = AWAITING_VIDEO
               /\ last.reply = <<"Please send me a video">>
        /\ Normalized(last) \in WordsText =>
               /\ Mode(last.from) = AWAITING_TEXT
               /\ last.reply = <<"Please send me the text">>
        /\ (last.pre_state = AWAITING_TEXT /\ Normalized(last) \in WordsAll) =>
               last.calls = <<>>

\* "TXT" typed while text was awaited: a command, not a text to analyse.
C3_Witness ==
    /\ IsTextEvent(last)
    /\ last.pre_greeted
    /\ last.pre_state = AWAITING_TEXT
    /\ last.message.text.body = <<"T","X","T">>
    /\ Mode(last.from) = AWAITING_TEXT
    /\ last.calls = <<>>

(***************************************************************************)
(* C4.  For an already-greeted identifier, a text that normalizes to hi,   *)
(* hello, hey or start sets the mode to IDLE from any prior mode, and the  *)
(* reply is the welcome text.                                              *)
(***************************************************************************)
C4_GreetingWordsReset ==
    (IsTextEvent(last) /\ last.pre_greeted
        /\ Normalized(last) \in WordsGreeting) =>
        /\ Mode(last.from) = IDLE
        /\ last.reply = <<WELCOME_MESSAGE>>

\* "HELLO" typed while a video was awaited.
C4_Witness ==
    /\ IsTextEvent(last)
    /\ last.pre_greeted
    /\ last.pre_state = AWAITING_VIDEO
    /\ last.message.text.body = <<"H","E","L","L","O">>
    /\ Mode(last.from) = IDLE

(***************************************************************************)
(* C5.  For an already-greeted identifier in any mode, a text that         *)
(* normalizes to help, info, ? or support is answered with the help text   *)
(* and changes neither the modes nor the greeted flags.                    *)
(***************************************************************************)
C5_HelpChangesNothing ==
    [][ (IsTextEvent(last') /\ last'.from \in user_greeted
            /\ Normalized(last') \in WordsHelp) =>
          /\ last'.reply = <<HELP_MESSAGE>>
          /\ last'.sent = << <<HELP_MESSAGE>> >>
          /\ user_state' = user_state
          /\ user_greeted' = user_greeted
      ]_vars

\* "Help " typed while an image was awaited.
C5_Witness ==
    /\ IsTextEvent(last)
    /\ last.pre_greeted
    /\ last.pre_state = AWAITING_IMAGE
    /\ last.message.text.body = <<"H","e","l","p"," ">>
    /\ last.reply = <<HELP_MESSAGE>>
    /\ Mode(last.from) = AWAITING_IMAGE

(***************************************************************************)
(* C6.  For an already-greeted identifier whose mode is not AWAITING_TEXT, *)
(* a text that is no command is answered with the "unclear" reply that     *)
(* restates the welcome menu; modes, greeted flags, stored assets and      *)
(* records are unchanged and no external call is made.                     *)
(***************************************************************************)
C6_UnclearTextChangesNothing ==
    [][ (IsTextEvent(last') /\ last'.from \in user_greeted
            /\ Get(user_state, last'.from, None) # AWAITING_TEXT
            /\ Normalized(last') \notin WordsAll) =>
          /\ last'.reply =
                 <<"I'm not sure what you'd like to do", WELCOME_MESSAGE>>
          /\ user_state' = user_state
          /\ user_greeted' = user_greeted
          /\ last'.calls = <<>>
          /\ storage' = storage
          /\ detection_history' = detection_history
      ]_vars

\* A 20-character text typed while a video was awaited.
C6_Witness ==
    /\ IsTextEvent(last)
    /\ last.pre_greeted
    /\ last.pre_state = AWAITING_VIDEO
    /\ last.message.text.body = Rep("a", 20)
    /\ Mode(last.from) = AWAITING_VIDEO
    /\ last.calls = <<>>

ChooseFirstLong ==
    <<"Please choose an option first:", "1 Image", "2 Video", "3 Text">>

\* Nothing of the pipeline happened in the step: no external call, and the
\* stored assets and the records are as before.
PipelineNotInvoked ==
    /\ last'.calls = <<>>
    /\ storage' = storage
    /\ detection_history' = detection_history

ModeUnchanged ==
    Get(user_state', last'.from, None) = Get(user_state, last'.from, None)

\* The mime type a document message declares ("" when it declares none).
DeclaredMime(e) == Get(e.message.document, "mime_type", <<>>)

HasMajor(mime_type, major) == Len(mime_type) >= 2 /\ mime_type[1] = major

(***************************************************************************)
(* C7.  An image message received while the mode is not AWAITING_IMAGE, or *)
(* a video message received while it is not AWAITING_VIDEO, never invokes  *)
(* the pipeline (no download, upload, insert or detector call), gets an    *)
(* error reply that tells what to do, and leaves the mode unchanged.       *)
(***************************************************************************)
C7_WrongMediaRejected ==
    [][ \A t \in {"image", "video"} :
          (last'.handled /\ last'.message.type = t
              /\ Get(user_state, last'.from, None) # t) =>
            /\ PipelineNotInvoked
            /\ ModeUnchanged
            /\ last'.reply \in
                 { ErrorReply(t, ChooseFirstShort),
                   ErrorReply(t, ChooseFirstLong),
                   ErrorReply(t, <<"You selected option",
                                   Get(user_state, last'.from, None),
                                   "but sent an image">>),
                   ErrorReply(t, <<"You selected option",
                                   Get(user_state, last'.from, None),
                                   "but sent a video">>) }
      ]_vars

\* An image with a media id arrives while a video is awaited.
C7_Witness ==
    /\ last.handled
    /\ last.message.type = "image"
    /\ "id" \in DOMAIN last.message.image
    /\ last.pre_state = AWAITING_VIDEO
    /\ Mode(last.from) = AWAITING_VIDEO
    /\ last.calls = <<>>

(***************************************************************************)
(* C8.  For a greeted identifier in IDLE, every media message (image,      *)
(* video or document) is answered with the reply asking to choose an       *)
(* option, the pipeline is not invoked, and the mode stays IDLE.           *)
(***************************************************************************)
C8_MediaInIdleRejected ==
    [][ (IsMediaEvent(last') /\ last'.from \in user_greeted
            /\ Get(user_state, last'.from, None) = IDLE) =>
          /\ last'.reply = ErrorReply(last'.message.type, ChooseFirstLong)
          /\ PipelineNotInvoked
          /\ Get(user_state', last'.from, None) = IDLE
      ]_vars

\* A pdf document with a media id from an identifier that was greeted by an
\* unsupported message, so that it has no entry in user_state at all.
C8_Witness ==
    /\ last.handled
    /\ last.message.type = "document"
    /\ last.message.document = [id |-> "m1", mime_type |-> <<"application","pdf">>]
    /\ last.pre_greeted
    /\ last.from \notin DOMAIN user_state
    /\ last.calls = <<>>

(***************************************************************************)
(* C9.  A document message is passed on to the pipeline in AWAITING_IMAGE  *)
(* only if its declared mime type starts with image/, in AWAITING_VIDEO    *)
(* only if it starts with video/, and in AWAITING_TEXT whatever it         *)
(* declares (with a media id the download is then attempted).  A rejected  *)
(* document gets the corrective reply, the pipeline is not invoked and the *)
(* mode is unchanged.                                                      *)
(***************************************************************************)
C9_DocumentGate ==
    [][ (last'.handled /\ last'.message.type = "document"
            /\ last'.from \in user_greeted) =>
          LET mode == Get(user_state, last'.from, None)
              mime == DeclaredMime(last')
          IN  /\ (mode = AWAITING_IMAGE /\ ~HasMajor(mime, "image")) =>
                    /\ last'.reply = ErrorReply("document",
                           <<"You selected 'image' but sent a document">>)
                    /\ PipelineNotInvoked
                    /\ ModeUnchanged
              /\ (mode = AWAITING_VIDEO /\ ~HasMajor(mime, "video")) =>
                    /\ last'.reply = ErrorReply("document",
                           <<"You selected 'video' but sent a document">>)
                    /\ PipelineNotInvoked
                    /\ ModeUnchanged
              /\ (/\ "id" \in DOMAIN last'.message.document
                  /\ \/ mode = AWAITING_TEXT
                     \/ mode = AWAITING_IMAGE /\ HasMajor(mime, "image")
                     \/ mode = AWAITING_VIDEO /\ HasMajor(mime, "video")) =>
                    /\ last'.calls # <<>>
                    /\ last'.calls[1] = "download"
      ]_vars

\* A document declaring image/jpeg is turned away while a video is awaited.
C9_Witness ==
    /\ last.handled
    /\ last.message.type = "document"
    /\ last.message.document = [id |-> "m1", mime_type |-> <<"image","jpeg">>]
    /\ last.pre_state = AWAITING_VIDEO
    /\ last.reply = ErrorReply("document",
                        <<"You selected 'video' but sent a document">>)
    /\ Mode(last.from) = AWAITING_VIDEO

(***************************************************************************)
(* C10.  In AWAITING_TEXT, a text that is no command and whose trimmed     *)
(* length is below 20 is answered "too short" without any detector call;   *)
(* one whose trimmed length is 20 or more is passed to the text detector,  *)
(* once.                                                                   *)
(***************************************************************************)
C10_ShortTextNotDetected ==
    (IsTextEvent(last) /\ last.pre_greeted /\ last.pre_state = AWAITING_TEXT
        /\ Normalized(last) \notin WordsAll) =>
        IF Len(strip(last.message.text.body)) < 20
        THEN /\ last.reply = <<"Text too short", HELP_MESSAGE>>
             /\ last.calls = <<>>
        ELSE last.calls = <<"detect_text">>

\* 19 characters between a blank and a line break: 21 characters typed, 19
\* after trimming.
C10_Witness ==
    /\ IsTextEvent(last)
    /\ last.pre_state = AWAITING_TEXT
    /\ last.message.text.body = <<" ">> \o Rep("a", 19) \o <<"\n">>
    /\ last.reply = <<"Text too short", HELP_MESSAGE>>
    /\ last.calls = <<>>

(***************************************************************************)
(* C11.  After a text that is no command is handled in AWAITING_TEXT the   *)
(* sender's mode is IDLE, whatever became of the text: turned away as too  *)
(* short, a verdict, a detector that reported failure, a detector that     *)
(* raised.                                                                 *)
(***************************************************************************)
C11_TextAnalysisResets ==
    (IsTextEvent(last) /\ last.pre_greeted /\ last.pre_state = AWAITING_TEXT
        /\ Normalized(last) \notin WordsAll) =>
        Mode(last.from) = IDLE

\* A 19-character text is turned away as too short, and the mode is IDLE.
C11_Witness ==
    /\ IsTextEvent(last)
    /\ last.pre_state = AWAITING_TEXT
    /\ last.message.text.body = Rep("a", 19)
    /\ last.reply = <<"Text too short", HELP_MESSAGE>>
    /\ Mode(last.from) = IDLE

\* What a collaborator did in the event, d when it was not involved.
Env(e, k, d) == Get(e.env, k, d)

IsFailureReply(e) ==
    /\ Len(e.reply) >= 2
    /\ e.reply[1] = "Error processing"
    /\ e.reply[2] = e.message.type

IsSuccessReply(e) ==
    /\ Len(e.reply) >= 2
    /\ e.reply[1] = e.message.type
    /\ e.reply[2] = "uploaded successfully"

(***************************************************************************)
(* C12.  handle_media_message never raises: whatever the download, the     *)
(* classification, the upload, the insert, the detector and the record     *)
(* update do, the handler returns (True, result) or (False, reason), and   *)
(* the message gets a formatted success reply or a formatted failure       *)
(* reply.                                                                  *)
(***************************************************************************)
C12_PipelineNeverRaises ==
    IsMediaEvent(last) =>
        /\ ~last.raised
        /\ IsSuccessReply(last) \/ IsFailureReply(last)
        /\ last.sent # <<>>
        /\ last.sent[Len(last.sent)] = last.reply

\* The update of an image's record raises: the image branch does not catch
\* it, the handler's outer except does.
C12_Witness ==
    /\ IsMediaEvent(last)
    /\ Env(last, "insert", FALSE)
    /\ "detect_image" \in {last.calls[i] : i \in 1..Len(last.calls)}
    /\ ~Env(last, "update", TRUE)
    /\ last.reply = ErrorReply(last.message.type, <<UpdateError>>)

(***************************************************************************)
(* C13.  As stated: every inbound message that carries a sender gets       *)
(* exactly one message sent back, whatever the outcome: never none, never  *)
(* two.  Refuted twice: a text analysed in AWAITING_TEXT whose detector    *)
(* answers success without a result gets none (the KeyError leaves the     *)
(* handler and the webhook only logs it), and a first media message gets   *)
(* two (the welcome text, then an error reply).                            *)
(***************************************************************************)
C13_ExactlyOneReply ==
    last.handled => Len(last.sent) = 1

\* The text detector answered success without a result: nothing was sent.
C13_Witness ==
    /\ IsTextEvent(last)
    /\ last.pre_state = AWAITING_TEXT
    /\ last.calls = <<"detect_text">>
    /\ Env(last, "detector", [kind |-> None]).kind = "response"
    /\ last.raised
    /\ last.sent = <<>>

CallSet(e) == {e.calls[i] : i \in 1..Len(e.calls)}

\* The reply to a media message that failed for the given reason.
FailedWith(reason) == last'.reply = ErrorReply(last'.message.type, <<reason>>)

(***************************************************************************)
(* C14.  When the download fails the reply is the "failed to download"     *)
(* error and no upload is attempted; when the upload fails the reply is    *)
(* the "failed to upload" error.  In both cases no record is created, no   *)
(* detector is called and the sender's mode is unchanged.                  *)
(***************************************************************************)
C14_DownloadOrUploadFailure ==
    [][ /\ (IsMediaEvent(last') /\ "download" \in DOMAIN last'.env
                /\ ~last'.env.download.ok) =>
              /\ FailedWith("Failed to download file from WhatsApp")
              /\ last'.calls = <<"download">>
              /\ storage' = storage
              /\ detection_history' = detection_history
              /\ ModeUnchanged
        /\ (IsMediaEvent(last') /\ ~Env(last', "upload", TRUE)) =>
              /\ FailedWith("Failed to upload file to storage")
              /\ last'.calls = <<"download", "upload">>
              /\ detection_history' = detection_history
              /\ ModeUnchanged
      ]_vars

\* The upload of a video fails while a video is awaited: the mode stays.
C14_Witness ==
    /\ IsMediaEvent(last)
    /\ last.message.type = "video"
    /\ ~Env(last, "upload", TRUE)
    /\ last.pre_state = AWAITING_VIDEO
    /\ Mode(last.from) = AWAITING_VIDEO
    /\ detection_history = <<>>

(***************************************************************************)
(* C15.  When the insert of the record fails after a successful upload,    *)
(* the reply is the "failed to store file metadata" error, the uploaded    *)
(* asset stays in its bucket (no delete is issued), no detector is called  *)
(* and the sender's mode is unchanged.                                     *)
(***************************************************************************)
C15_InsertFailureKeepsAsset ==
    [][ (IsMediaEvent(last') /\ ~Env(last', "insert", TRUE)) =>
          /\ FailedWith("Failed to store file metadata")
          /\ last'.calls = <<"download", "upload", "insert">>
          /\ Len(storage') = Len(storage) + 1
          /\ SubSeq(storage', 1, Len(storage)) = storage
          /\ storage'[Len(storage')].session_id = last'.from
          /\ detection_history' = detection_history
          /\ ModeUnchanged
      ]_vars

\* An image was uploaded, its record could not be inserted: the asset is
\* there, no record is, and an image is still awaited.
C15_Witness ==
    /\ IsMediaEvent(last)
    /\ ~Env(last, "insert", TRUE)
    /\ last.pre_state = AWAITING_IMAGE
    /\ Mode(last.from) = AWAITING_IMAGE
    /\ Len(storage) = 1
    /\ detection_history = <<>>

\* The event inserted a Detection Record.
RecordInserted == Len(detection_history') = Len(detection_history) + 1

(***************************************************************************)
(* C16.  As stated: once a Detection Record exists for a media message,    *)
(* the sender's mode is IDLE when the pipeline finishes, whatever the      *)
(* detect step did (verdict, detector failure, malformed answer, failed    *)
(* record update); the mode is left unchanged only when the pipeline       *)
(* stopped before a record existed.  Refuted by an image whose record      *)
(* update raises: the image branch catches ModalDetectionError only, the   *)
(* outer except returns without resetting the mode.                        *)
(***************************************************************************)
C16_RecordImpliesIdle ==
    [][ IsMediaEvent(last') =>
          /\ RecordInserted => Get(user_state', last'.from, None) = IDLE
          /\ (~RecordInserted /\ last'.from \in user_greeted) => ModeUnchanged
      ]_vars

\* The record of an image exists and is still pending, its update raised,
\* and an image is still awaited.
C16_Witness ==
    /\ IsMediaEvent(last)
    /\ Env(last, "insert", FALSE)
    /\ ~Env(last, "update", TRUE)
    /\ last.pre_state = AWAITING_IMAGE
    /\ Mode(last.from) = AWAITING_IMAGE
    /\ Len(detection_history) = 1
    /\ detection_history[1].detection_result = "pending"

\* How many times the event attempted a record update.
UpdateCalls(e) == Cardinality({i \in 1..Len(e.calls) : e.calls[i] = "update"})

(***************************************************************************)
(* C17.  As stated: every Detection Record is inserted as pending and is   *)
(* updated exactly once by the pipeline run that inserted it, whether the  *)
(* detector succeeded or failed: when the run finishes the record is no    *)
(* longer pending, and older records are not touched.  Stated here for the *)
(* runs in which no write to the record fails.  Refuted by a document      *)
(* whose text detector answers success = false: that branch writes nothing *)
(* and the record stays pending.                                           *)
(***************************************************************************)
C17_UpdatedExactlyOnce ==
    [][ (IsMediaEvent(last') /\ RecordInserted
            /\ Env(last', "update", TRUE)
            /\ Env(last', "error_update", TRUE)) =>
          /\ UpdateCalls(last') = 1
          /\ detection_history'[Len(detection_history')].detection_result
                 # "pending"
          /\ SubSeq(detection_history', 1, Len(detection_history))
                 = detection_history
      ]_vars

\* A document's text was extracted and valid, the text detector answered
\* success = false: no update was attempted and the record is pending.
C17_Witness ==
    /\ IsMediaEvent(last)
    /\ Env(last, "insert", FALSE)
    /\ Env(last, "char_count", 0) = 20
    /\ "detect_text" \in CallSet(last)
    /\ UpdateCalls(last) = 0
    /\ ~last.raised
    /\ Len(detection_history) = 1
    /\ detection_history[1].detection_result = "pending"
    /\ Mode(last.from) = IDLE

\* The statuses of a Detection Record; the code writes the verdicts in
\* capitals.
StatusNames == {"pending", "real", "fake", "error", "REAL", "FAKE"}

(***************************************************************************)
(* C18.  As stated: in every reachable state each Detection Record's       *)
(* status is one of pending, real, fake, error and its confidence is an    *)
(* integer from 0 to 100, whatever the detectors answer, answers with a    *)
(* missing or unexpected verdict included.  Refuted by a video detector    *)
(* answer whose final_verdict is neither FAKE nor REAL, or is missing: the *)
(* video branch stores the field as it came.                               *)
(***************************************************************************)
C18_RecordFieldsInRange ==
    \A i \in 1..Len(detection_history) :
        /\ detection_history[i].detection_result \in StatusNames
        /\ detection_history[i].confidence_score \in 0..100

\* The video detector answered UNCERTAIN and the record says UNCERTAIN.
C18_Witness ==
    /\ IsMediaEvent(last)
    /\ "detect_video" \in CallSet(last)
    /\ Env(last, "update", FALSE)
    /\ Len(detection_history) = 1
    /\ detection_history[1].detection_result = "UNCERTAIN"

\* The video detector was called and failed: an answer carrying "error", an
\* HTTP failure or a timeout.
VideoDetectorFailed(e) ==
    /\ IsMediaEvent(e)
    /\ "detect_video" \in CallSet(e)
    /\ \/ e.env.detector.kind = "request_exception"
       \/ "error" \in DOMAIN e.env.detector.response

\* The message of the video detector's failure.
VideoFailureMessage(e) ==
    IF e.env.detector.kind = "request_exception"
    THEN "Failed to process video"
    ELSE e.env.detector.response.error

\* The reply reports the upload and explains the detection failure.
UploadedButDetectionFailed(e, message) ==
    e.reply = <<e.message.type, "uploaded successfully", "Type", "video",
                "Detection Error", message,
                "Please try again or contact support.">>

\* The record the last event inserted.
LastRecord == detection_history[Len(detection_history)]

(***************************************************************************)
(* C19.  As stated: when the video detector fails after the record was     *)
(* persisted, the record's status is error with the error message in its   *)
(* metadata, and the reply reports the upload and explains the failure.    *)
(* Refuted by a run in which the write of the error status fails too: it   *)
(* is swallowed and the record stays pending.                              *)
(***************************************************************************)
C19_VideoFailureMarksError ==
    VideoDetectorFailed(last) =>
        /\ LastRecord.detection_result = "error"
        /\ LastRecord.error = VideoFailureMessage(last)
        /\ UploadedButDetectionFailed(last, VideoFailureMessage(last))

(***************************************************************************)
(* C19, amended.  When the video detector fails after the record was       *)
(* persisted, the pipeline attempts one write that sets the record's       *)
(* status to error with the error message in its metadata, and the reply   *)
(* reports the upload and explains the failure.  The record is error with  *)
(* that message when the write succeeds; when the write fails the record   *)
(* stays pending and the reply is the same.                                *)
(***************************************************************************)
C19_VideoFailureBestEffort ==
    VideoDetectorFailed(last) =>
        /\ last.calls
             = <<"download", "upload", "insert", "detect_video", "update">>
        /\ IF last.env.error_update
           THEN /\ LastRecord.detection_result = "error"
                /\ LastRecord.error = VideoFailureMessage(last)
           ELSE /\ LastRecord.detection_result = "pending"
                /\ LastRecord.error = ""
        /\ UploadedButDetectionFailed(last, VideoFailureMessage(last))

\* The video detector answered with an error and the record says error.
C19_Witness ==
    /\ VideoDetectorFailed(last)
    /\ last.env.detector.kind = "response"
    /\ last.env.error_update
    /\ LastRecord.detection_result = "error"
    /\ LastRecord.error = "No face found"

\* The event extracted a document's text: n characters after trimming.
TextExtracted(e) ==
    IsMediaEvent(e) /\ "char_count" \in DOMAIN e.env /\ e.env.char_count >= 0

\* Empty, too short or too long.
InvalidLength(n) == n = 0 \/ n < 20 \/ n > 100000

ValidationReason(n) ==
    IF n = 0 THEN "No text content found in document"
    ELSE IF n < 20 THEN "Document too short"
    ELSE "Document too long"

\* A success-level reply that carries the reason and no verdict.
UploadedButNotAnalysed(e, reason) ==
    e.reply = <<e.message.type, "uploaded successfully", "Type", "document",
                "Detection Error", reason, "Text extraction: Success",
                "Please try again or contact support.">>

(***************************************************************************)
(* C20.  As stated: for every asset classified as a document the extracted *)
(* text is validated before any text-detector call; when it is empty, too  *)
(* short or too long the detector is not called, the record's status       *)
(* becomes error with the validation reason, and the reply is a            *)
(* success-level reply without a verdict.  Refuted by a run in which the   *)
(* write of the error status fails: it is swallowed and the record stays   *)
(* pending.                                                                *)
(***************************************************************************)
C20_InvalidDocumentMarksError ==
    (TextExtracted(last) /\ InvalidLength(last.env.char_count)) =>
        /\ "detect_text" \notin CallSet(last)
        /\ LastRecord.detection_result = "error"
        /\ LastRecord.error = ValidationReason(last.env.char_count)
        /\ UploadedButNotAnalysed(last, ValidationReason(last.env.char_count))

(***************************************************************************)
(* C20, amended.  For every asset classified as a document the extracted   *)
(* text is validated before any text-detector call: the detector is called *)
(* only for a text of 20 to 100000 characters.  When the text is empty,    *)
(* too short or too long the detector is not called, the reply is a        *)
(* success-level reply with the validation reason and no verdict, and one  *)
(* write sets the record's status to error with that reason; when that     *)
(* write fails the record stays pending.                                   *)
(***************************************************************************)
C20_InvalidDocumentBestEffort ==
    /\ (IsMediaEvent(last) /\ "detect_text" \in CallSet(last)) =>
           /\ "char_count" \in DOMAIN last.env
           /\ ~InvalidLength(last.env.char_count)
    /\ (IsMediaEvent(last) /\ Env(last, "insert", FALSE)
            /\ LastRecord.file_type = "document") =>
           "char_count" \in DOMAIN last.env
    /\ (TextExtracted(last) /\ InvalidLength(last.env.char_count)) =>
           /\ last.calls = <<"download", "upload", "insert", "update">>
           /\ IF last.env.error_update
              THEN /\ LastRecord.detection_result = "error"
                   /\ LastRecord.error
                          = ValidationReason(last.env.char_count)
              ELSE /\ LastRecord.detection_result = "pending"
                   /\ LastRecord.error = ""
           /\ UploadedButNotAnalysed(last,
                  ValidationReason(last.env.char_count))

\* A document of 100001 characters: not analysed, record error, too long.
C20_Witness ==
    /\ TextExtracted(last)
    /\ last.env.char_count = 100001
    /\ last.env.error_update
    /\ "detect_text" \notin CallSet(last)
    /\ LastRecord.detection_result = "error"
    /\ LastRecord.error = "Document too long"

(***************************************************************************)
(* Service functions applied on their own.  call holds one application:    *)
(* its arguments, drawn in the initial state, and what it returned.        *)
(***************************************************************************)
\* No message has been handled.
NoMessages ==
    /\ user_greeted = {}
    /\ user_state = <<>>
    /\ storage = <<>>
    /\ detection_history = <<>>
    /\ last = [handled |-> FALSE, from |-> None, message |-> [type |-> None],
               pre_greeted |-> FALSE, pre_state |-> None, reply |-> NoReply,
               sent |-> <<>>, calls |-> <<>>, raised |-> FALSE,
               env |-> NoEnv]

Return(result) ==
    /\ call' = [call EXCEPT !.done = TRUE, !.result = result]
    /\ UNCHANGED <<user_greeted, user_state, storage, detection_history, last>>

(***************************************************************************)
(* document_extraction.py: is_valid_document_for_detection on a text.  A   *)
(* text is the sequence of its runs of equal characters, [c, n] standing   *)
(* for n >= 1 times the character c.                                       *)
(***************************************************************************)
Run(c, n) == <<[c |-> c, n |-> n]>>

\* len(text)
RECURSIVE len_runs(_)
len_runs(text) ==
    IF text = <<>> THEN 0 ELSE Head(text).n + len_runs(Tail(text))

RECURSIVE lstrip_runs(_)
lstrip_runs(text) ==
    IF text # <<>> /\ Head(text).c \in Whitespace
    THEN lstrip_runs(Tail(text))
    ELSE text

RECURSIVE rstrip_runs(_)
rstrip_runs(text) ==
    IF text # <<>> /\ text[Len(text)].c \in Whitespace
    THEN rstrip_runs(SubSeq(text, 1, Len(text) - 1))
    ELSE text

\* text.strip()
strip_runs(text) == rstrip_runs(lstrip_runs(text))

\* Mutant: the length is taken before trimming.
is_valid_document_text_NoStrip(text) ==
    IF text = <<>> \/ strip_runs(text) = <<>>
    THEN "No text content found in document"
    ELSE is_valid_document_for_detection(len_runs(text))

\* Lines 225-236: "not text or not text.strip()", then len(text.strip())
\* against min_chars and max_chars.  "" is (True, "").
is_valid_document_text(text) ==
    IF text = <<>> \/ strip_runs(text) = <<>>
    THEN "No text content found in document"
    ELSE is_valid_document_for_detection(len_runs(strip_runs(text)))

DocumentBodies ==
    { <<>>, Run("a", 1), Run("a", 19), Run("a", 20), Run("a", 21),
      Run("a", 99999), Run("a", 100000), Run("a", 100001),
      Run("a", 9) \o Run(" ", 1) \o Run("b", 9),
      Run("a", 10) \o Run(" ", 1) \o Run("b", 9),
      Run("a", 50000) \o Run("\n", 1) \o Run("b", 49999),
      Run("a", 50000) \o Run("\n", 1) \o Run("b", 50000) }

LeadingSpace == { <<>>, Run(" ", 1), Run("\n", 2), Run("\t", 1) \o Run(" ", 30) }

TrailingSpace == { <<>>, Run(" ", 3), Run("\n", 1) }

DocumentTexts ==
    { l \o b \o r : l \in LeadingSpace, b \in DocumentBodies,
                    r \in TrailingSpace }

ValidateCalls ==
    { [op |-> "validate", text |-> t, done |-> FALSE, result |-> None] :
          t \in DocumentTexts }

Validate ==
    /\ call.op = "validate"
    /\ ~call.done
    /\ Return(is_valid_document_text(call.text))

Validated == call.op = "validate" /\ call.done

\* The characters of a text that are left after trimming: all but the
\* white space before the first and after the last other character.
FirstInk(text) ==
    IF \E i \in 1..Len(text) : text[i].c \notin {" ", "\t", "\n"}
    THEN CHOOSE i \in 1..Len(text) :
             /\ text[i].c \notin {" ", "\t", "\n"}
             /\ \A j \in 1..(i - 1) : text[j].c \in {" ", "\t", "\n"}
    ELSE 0

LastInk(text) ==
    IF \E i \in 1..Len(text) : text[i].c \notin {" ", "\t", "\n"}
    THEN CHOOSE i \in 1..Len(text) :
             /\ text[i].c \notin {" ", "\t", "\n"}
             /\ \A j \in (i + 1)..Len(text) : text[j].c \in {" ", "\t", "\n"}
    ELSE 0

RECURSIVE SumRuns(_, _, _)
SumRuns(text, i, j) ==
    IF i = 0 \/ i > j THEN 0 ELSE text[i].n + SumRuns(text, i + 1, j)

TrimmedLength(text) == SumRuns(text, FirstInk(text), LastInk(text))

Accepted == call.result = ""

(***************************************************************************)
(* C21.  Document validation with the default bounds accepts a text        *)
(* exactly when its trimmed length n satisfies 20 <= n <= 100000: 19       *)
(* characters is rejected, 20 and 100000 are accepted, 100001 is rejected, *)
(* and an empty or whitespace-only text is rejected.                       *)
(***************************************************************************)
C21_ValidationBounds ==
    Validated =>
        /\ Accepted <=> (20 <= TrimmedLength(call.text)
                            /\ TrimmedLength(call.text) <= 100000)
        /\ TrimmedLength(call.text) = 19 => ~Accepted
        /\ TrimmedLength(call.text) = 20 => Accepted
        /\ TrimmedLength(call.text) = 100000 => Accepted
        /\ TrimmedLength(call.text) = 100001 => ~Accepted
        /\ TrimmedLength(call.text) = 0 => ~Accepted

\* A text of 100000 characters between white space is accepted.
C21_Witness ==
    /\ Validated
    /\ Len(call.text) = 3
    /\ call.text[1].c = "\n"
    /\ TrimmedLength(call.text) = 100000
    /\ Accepted

(***************************************************************************)
(* storage_service.py: determine_file_type_and_bucket and                  *)
(* get_file_extension applied to drawn arguments.  None is a missing       *)
(* extension, <<>> a missing mime type or file name.                       *)
(***************************************************************************)
Extensions ==
    { None, "", "jpg", "png", "heic", "mp4", "mov", "pdf", "txt", "csv",
      "exe", "bmp", "JPG" }

MimeTypes ==
    { <<>>, <<"image","jpeg">>, <<"image","bmp">>, <<"video","mp4">>,
      <<"video","quicktime">>, <<"application","pdf">>, <<"text","plain">>,
      <<"application","zip">> }

ClassifyCalls ==
    { [op |-> "classify", extension |-> e, mime_type |-> m, done |-> FALSE,
       result |-> <<>>, again |-> <<>>] :
          e \in Extensions, m \in MimeTypes }

Classify ==
    /\ call.op = "classify"
    /\ ~call.done
    /\ Return(determine_file_type_and_bucket(call.extension, call.mime_type))

\* The same pair once more.
ClassifyAgain ==
    /\ call.op = "classify"
    /\ call.done
    /\ call.again = <<>>
    /\ call' = [call EXCEPT !.again =
           determine_file_type_and_bucket(call.extension, call.mime_type)]
    /\ UNCHANGED <<user_greeted, user_state, storage, detection_history, last>>

NamedFiles ==
    { <<>>, <<"photo">>, <<"photo","jpg">>, <<"clip","MP4">>,
      <<"a","tar","PDF">>, <<"report","">>, <<"","PNG">>, <<"setup","exe">> }

ExtensionCalls ==
    { [op |-> "extension", filename |-> f, mime_type |-> m, done |-> FALSE,
       result |-> None] :
          f \in NamedFiles, m \in MimeTypes }

Extension ==
    /\ call.op = "extension"
    /\ ~call.done
    /\ Return(get_file_extension(call.filename, call.mime_type))

Classified == call.op = "classify" /\ call.done

ConfiguredBucket ==
    [image |-> "image-uploads", video |-> "video-uploads",
     document |-> "text-uploads"]

KnownExtensions ==
    [image |-> {"jpg", "jpeg", "png", "gif", "webp", "heic"},
     video |-> {"mp4", "mov", "avi", "mkv", "webm"},
     document |-> {"pdf", "doc", "docx", "txt", "csv"}]

KnownMimes ==
    [image |-> {"jpeg", "png", "gif", "webp", "heic"},
     video |-> {"mp4", "quicktime", "x-msvideo", "x-matroska", "webm"}]

KnownDocumentMimes ==
    { <<"application","pdf">>, <<"application","msword">>,
      <<"application","vnd.openxmlformats-officedocument.wordprocessingml.document">>,
      <<"text","plain">>, <<"text","csv">> }

ExtensionKnown(e) ==
    \E t \in DOMAIN KnownExtensions : e \in KnownExtensions[t]

MimeKnown(m) ==
    \/ m \in KnownDocumentMimes
    \/ \E t \in DOMAIN KnownMimes : Len(m) = 2 /\ m[1] = t /\ m[2] \in KnownMimes[t]

(***************************************************************************)
(* C22.  classify is total and deterministic: every (extension, mime)      *)
(* pair, missing and unknown values included, resolves to one (category,   *)
(* bucket) with the category in image, video, document and the bucket the  *)
(* one configured for it; an unknown pair resolves to document and the     *)
(* default bucket; the same pair classified again gives the same result.   *)
(***************************************************************************)
C22_ClassifyTotal ==
    Classified =>
        /\ Len(call.result) = 2
        /\ call.result[1] \in {"image", "video", "document"}
        /\ call.result[2] = ConfiguredBucket[call.result[1]]
        /\ (~ExtensionKnown(call.extension) /\ ~MimeKnown(call.mime_type)) =>
               call.result = <<"document", "text-uploads">>
        /\ call.again # <<>> => call.again = call.result

\* An unknown extension with an unknown mime type, classified twice.
C22_Witness ==
    /\ Classified
    /\ call.extension = "exe"
    /\ call.mime_type = <<"application","zip">>
    /\ call.result = <<"document", "text-uploads">>
    /\ call.again = call.result

CategoryOfExtension(e) ==
    CHOOSE t \in DOMAIN KnownExtensions : e \in KnownExtensions[t]

CategoryOfMime(m) ==
    IF m \in KnownDocumentMimes THEN "document" ELSE m[1]

ExtensionDecides ==
    Classified =>
        /\ ExtensionKnown(call.extension) =>
               call.result[1] = CategoryOfExtension(call.extension)
        /\ (~ExtensionKnown(call.extension) /\ MimeKnown(call.mime_type)) =>
               call.result[1] = CategoryOfMime(call.mime_type)

Extracted == call.op = "extension" /\ call.done

\* The lower-cased text after the last dot of a file name.
Suffix(filename) ==
    LET w == filename[Len(filename)]
    IN  CASE w = "MP4" -> "mp4"
          [] w = "PNG" -> "png"
          [] w = "PDF" -> "pdf"
          [] OTHER -> w

\* What the standard mime table gives, None when it has no entry.
MimeExtension(m) ==
    CASE m = <<"image","jpeg">> -> "jpg"
      [] m = <<"image","bmp">> -> "bmp"
      [] m = <<"video","mp4">> -> "mp4"
      [] m = <<"application","pdf">> -> "pdf"
      [] m = <<"text","plain">> -> "txt"
      [] OTHER -> None

HasDot(filename) == Len(filename) >= 2

\* No extension: None and the empty text count alike.
SameExtension(a, b) == a = b \/ (a \in {None, ""} /\ b \in {None, ""})

HasSuffix(filename) == HasDot(filename) /\ filename[Len(filename)] # ""

(***************************************************************************)
(* C23, as claimed.  A known extension decides the category even when the  *)
(* mime type belongs to another category; the mime type is consulted only  *)
(* when the extension is absent or matches no category; the extension is   *)
(* the file name's suffix whenever the name has one, and is derived from   *)
(* the mime type otherwise.                                                *)
(***************************************************************************)
C23_SuffixElseMime ==
    /\ ExtensionDecides
    /\ Extracted =>
           IF HasSuffix(call.filename)
           THEN call.result = Suffix(call.filename)
           ELSE SameExtension(call.result, MimeExtension(call.mime_type))

(***************************************************************************)
(* C23, amended.  A known extension decides the category even when the     *)
(* mime type belongs to another category, and the mime type is consulted   *)
(* only when the extension is absent or matches no category.  The          *)
(* extension is the lower-cased text after the last dot whenever the file  *)
(* name contains a dot, even when that text is empty; only a name without  *)
(* a dot, or a missing name, has its extension derived from the mime type. *)
(***************************************************************************)
C23_DotElseMime ==
    /\ ExtensionDecides
    /\ Extracted =>
           IF HasDot(call.filename)
           THEN call.result = Suffix(call.filename)
           ELSE call.result = MimeExtension(call.mime_type)

\* report. declared as application/pdf: the extension is the empty text
\* after the dot, not pdf.
C23_Witness ==
    /\ Extracted
    /\ call.filename = <<"report", "">>
    /\ call.mime_type = <<"application","pdf">>
    /\ call.result = ""

(***************************************************************************)
(* storage_service.py: generate_unique_filename.  Texts are sequences of   *)
(* characters; <<>> is None or the empty text, which the code treats       *)
(* alike.  The clock and the uuid are the caller's environment.            *)
(***************************************************************************)
AsciiLetters ==
    {"a", "b", "c", "d", "e", "f", "g", "h", "i", "j", "k", "l", "m", "n",
      "o", "p", "q", "r", "s", "t", "u", "v", "w", "x", "y", "z",
      "A", "B", "C", "D", "E", "F", "G", "H", "I", "J", "K", "L", "M", "N",
      "O", "P", "Q", "R", "S", "T", "U", "V", "W", "X", "Y", "Z"}

DigitChars == {"0", "1", "2", "3", "4", "5", "6", "7", "8", "9"}

\* str.isalnum on a character of the inputs below.
isalnum(c) == c \in AsciiLetters \cup DigitChars

\* c.isalnum() or c in ['-', '_']
KeptInBaseName(c) == isalnum(c) \/ c \in {"-", "_"}

\* The index of the last dot of a text, 0 when it has none.
LastDot(s) ==
    IF \E i \in 1..Len(s) : s[i] = "."
    THEN CHOOSE i \in 1..Len(s) :
             s[i] = "." /\ \A j \in (i + 1)..Len(s) : s[j] # "."
    ELSE 0

\* get_file_extension(filename) on a text, without a mime type; the text
\* "None" is what the f-string makes of None.
ExtensionOfName(filename) ==
    IF LastDot(filename) > 0
    THEN lower(SubSeq(filename, LastDot(filename) + 1, Len(filename)))
    ELSE <<"N", "o", "n", "e">>

\* filename.rsplit('.', 1)[0]
BeforeLastDot(filename) ==
    IF LastDot(filename) > 0
    THEN SubSeq(filename, 1, LastDot(filename) - 1)
    ELSE filename

MAX_BASE_NAME == 50

\* s[:n]
Prefix(s, n) == SubSeq(s, 1, IF Len(s) < n THEN Len(s) ELSE n)

\* str(n) of a natural number.
RECURSIVE str_int(_)
str_int(n) ==
    LET d == <<"0", "1", "2", "3", "4", "5", "6", "7", "8", "9">>[(n % 10) + 1]
    IN  IF n < 10 THEN <<d>> ELSE str_int(n \div 10) \o <<d>>

\* Lines 55-68: the five parts of the key.
KeyParts(user_id, original_filename, session_id, timestamp, random_id) ==
    [identifier |-> IF user_id # <<>> THEN user_id
                    ELSE IF session_id # <<>> THEN session_id
                    ELSE <<"u", "n", "k", "n", "o", "w", "n">>,
     timestamp |-> str_int(timestamp),
     random_id |-> random_id,
     base_name |-> IF original_filename # <<>>
                   THEN Prefix(SelectSeq(BeforeLastDot(original_filename),
                                         KeptInBaseName), MAX_BASE_NAME)
                   ELSE <<"f", "i", "l", "e">>,
     extension |-> IF original_filename # <<>>
                   THEN ExtensionOfName(original_filename)
                   ELSE <<"b", "i", "n">>]

\* Line 69: the f-string.
KeyText(k) ==
    k.identifier \o <<"_">> \o k.timestamp \o <<"_">> \o k.random_id
        \o <<"_">> \o k.base_name \o <<".">> \o k.extension

generate_unique_filename(user_id, original_filename, session_id, timestamp, random_id) ==
    KeyText(KeyParts(user_id, original_filename, session_id, timestamp,
                     random_id))

\* int(time.time()): two consecutive seconds.
Timestamps == {1700000000, 1700000001}

\* str(uuid.uuid4())[:8]: two of the 16^8 values.
RandomIds ==
    { <<"1", "a", "2", "b", "3", "c", "4", "d">>,
      <<"9", "f", "8", "e", "7", "d", "6", "c">> }

UserIds == { <<>>, <<"u", "s", "e", "r", "-", "7">> }

\* A phone number, a number as a person writes it, a temporary session id.
SessionIds ==
    { <<>>,
      <<"1", "5", "5", "5", "0", "0", "0", "1">>,
      <<"+", "1", " ", "5", "5", "5", " ", "0", "0", "0", "1">>,
      <<"t", "e", "m", "p", "_", "1", "a", "2", "b", "3", "c", "4", "d",
         "-", "9", "f", "8", "e", "-", "7", "d">> }

\* photo.jpg, README, report., My File (1).PDF, my report.p/df, a.tar.gz,
\* .png, and a name of 60 letters before .png.
OriginalFilenames ==
    { <<>>,
      <<"p", "h", "o", "t", "o", ".", "j", "p", "g">>,
      <<"R", "E", "A", "D", "M", "E">>,
      <<"r", "e", "p", "o", "r", "t", ".">>,
      <<"M", "y", " ", "F", "i", "l", "e", " ", "(", "1", ")", ".", "P",
         "D", "F">>,
      <<"m", "y", " ", "r", "e", "p", "o", "r", "t", ".", "p", "/", "d",
         "f">>,
      <<"a", ".", "t", "a", "r", ".", "g", "z">>,
      <<".", "p", "n", "g">>,
      Rep("x", 60) \o <<".", "p", "n", "g">> }

\* Mutant: an upload under a key that exists is turned away.
StoreObject_NoUpsert(objects, key, content) ==
    IF key \in DOMAIN objects THEN objects ELSE Put(objects, key, content)

\* upload_to_supabase with "upsert": "true": the object under the key is
\* written, whether or not one was there.
StoreObject(objects, key, content) == Put(objects, key, content)

MaxKeys == 2

KeyCalls ==
    { [op |-> "key", user_id |-> u, session_id |-> sid, filename |-> f,
       content |-> "file", now |-> 1700000000, parts |-> <<>>, keys |-> <<>>,
       objects |-> <<>>] :
          u \in UserIds, sid \in SessionIds, f \in OriginalFilenames }

\* One upload of the same file by the same identifier: a key is made at the
\* current second with a fresh random part, and the content is stored
\* under it.
MakeKey ==
    /\ call.op = "key"
    /\ Len(call.keys) < MaxKeys
    /\ \E t \in Timestamps, r \in RandomIds :
          /\ t >= call.now
          /\ LET parts == KeyParts(call.user_id, call.filename,
                                   call.session_id, t, r)
                 key == generate_unique_filename(call.user_id, call.filename,
                                                 call.session_id, t, r)
             IN  call' = [call EXCEPT
                     !.now = t,
                     !.parts = Append(@, parts),
                     !.keys = Append(@, key),
                     !.objects = StoreObject(@, key,
                                     <<call.content, Len(call.keys) + 1>>)]
    /\ UNCHANGED <<user_greeted, user_state, storage, detection_history, last>>

KeyMade == call.op = "key" /\ call.keys # <<>>

Sanitized(c) ==
    \/ c \in {"a", "b", "c", "d", "e", "f", "g", "h", "i", "j", "k", "l",
              "m", "n", "o", "p", "q", "r", "s", "t", "u", "v", "w", "x",
              "y", "z"}
    \/ c \in {"A", "B", "C", "D", "E", "F", "G", "H", "I", "J", "K", "L",
              "M", "N", "O", "P", "Q", "R", "S", "T", "U", "V", "W", "X",
              "Y", "Z"}
    \/ c \in {"0", "1", "2", "3", "4", "5", "6", "7", "8", "9", "-", "_"}

AllSanitized(s) == \A i \in 1..Len(s) : Sanitized(s[i])

(***************************************************************************)
(* C24, as claimed.  For every owner or session identifier and original    *)
(* file name, the key holds no character outside the sanitized set         *)
(* (alphanumerics, '-' and '_'), the dot before the extension apart, and   *)
(* its base-name part is at most 50 characters long.                       *)
(***************************************************************************)
C24_KeySanitized ==
    KeyMade =>
        \A i \in 1..Len(call.keys) :
            /\ AllSanitized(call.parts[i].identifier)
            /\ AllSanitized(call.parts[i].timestamp)
            /\ AllSanitized(call.parts[i].random_id)
            /\ AllSanitized(call.parts[i].base_name)
            /\ AllSanitized(call.parts[i].extension)
            /\ Len(call.parts[i].base_name) <= 50

\* The key of "my report.p/df" sent by 15550001: its base name is
\* sanitized, its extension holds a slash.
C24_Witness ==
    /\ KeyMade
    /\ call.user_id = <<>>
    /\ call.session_id = <<"1", "5", "5", "5", "0", "0", "0", "1">>
    /\ call.filename = <<"m", "y", " ", "r", "e", "p", "o", "r", "t", ".",
                         "p", "/", "d", "f">>
    /\ call.parts[1].base_name = <<"m", "y", "r", "e", "p", "o", "r", "t">>
    /\ call.parts[1].extension = <<"p", "/", "d", "f">>
    /\ \E i \in 1..Len(call.keys[1]) : call.keys[1][i] = "/"

\* What does hold: the base-name part is sanitized and at most 50 long.
C24_BaseNameSanitized ==
    KeyMade =>
        \A i \in 1..Len(call.keys) :
            /\ AllSanitized(call.parts[i].base_name)
            /\ Len(call.parts[i].base_name) <= 50

TwoKeysMade == call.op = "key" /\ Len(call.keys) >= 2

(***************************************************************************)
(* C25, as claimed.  Two calls of make_key with identical inputs produce   *)
(* distinct keys, so two uploads of the same file by the same identifier   *)
(* never share, and overwrite, one storage key.                            *)
(***************************************************************************)
C25_KeysDistinct ==
    TwoKeysMade =>
        /\ \A i, j \in 1..Len(call.keys) :
               i < j => call.keys[i] # call.keys[j]
        /\ Cardinality(DOMAIN call.objects) = Len(call.keys)

SameDraw(i, j) ==
    /\ call.parts[i].timestamp = call.parts[j].timestamp
    /\ call.parts[i].random_id = call.parts[j].random_id

\* The last upload made under the key of upload i.
LastUnder(i) ==
    CHOOSE j \in i..Len(call.keys) :
        /\ call.keys[j] = call.keys[i]
        /\ \A k \in (j + 1)..Len(call.keys) : call.keys[k] # call.keys[i]

(***************************************************************************)
(* C25, amended.  Two calls of make_key with identical inputs produce      *)
(* distinct keys exactly when they fall in different seconds or draw       *)
(* different random parts; then both uploads are kept.  Two calls in the   *)
(* same second that draw the same random part produce the same key, and    *)
(* the second upload overwrites the first.                                 *)
(***************************************************************************)
C25_DistinctUnlessSameDraw ==
    TwoKeysMade =>
        /\ \A i, j \in 1..Len(call.keys) :
               i < j => (SameDraw(i, j) <=> call.keys[i] = call.keys[j])
        /\ DOMAIN call.objects = {call.keys[i] : i \in 1..Len(call.keys)}
        /\ \A i \in 1..Len(call.keys) :
               call.objects[call.keys[i]] = <<"file", LastUnder(i)>>

\* Two uploads one second apart with the same random part: two objects.
C25_Witness ==
    /\ TwoKeysMade
    /\ call.parts[1].random_id = call.parts[2].random_id
    /\ call.parts[1].timestamp # call.parts[2].timestamp
    /\ call.keys[1] # call.keys[2]
    /\ call.objects[call.keys[1]] = <<"file", 1>>
    /\ call.objects[call.keys[2]] = <<"file", 2>>

(***************************************************************************)
(* app.py: api_upload, from the owner's resolution to the insert.  None is *)
(* a header or form field that is not sent, "" one that is sent empty.     *)
(***************************************************************************)
Falsy(x) == x \in {None, ""}

\* Lines 89-95: the token's user, else the form's; a temporary session id
\* only when neither a session id nor a user id is there.
UploadOwner(token_user, form_user, form_session, temp_session) ==
    LET user_id == IF ~Falsy(token_user) THEN token_user ELSE form_user
    IN  [user_id |-> user_id,
         session_id |-> IF Falsy(form_session) /\ Falsy(user_id)
                        THEN temp_session
                        ELSE form_session]

\* store_detection_history, lines 172-187: "session_id" is always in the
\* row, "user_id" only when it is truthy (None is the column left NULL).
OwnerColumns(user_id, session_id) ==
    [user_id |-> IF ~Falsy(user_id) THEN user_id ELSE None,
     session_id |-> session_id]

TokenUsers == {None, "U1"}

FormUsers == {None, "", "U1", "U2"}

FormSessions == {None, "", "S1", "15550001"}

UploadCalls ==
    { [op |-> "upload", token_user |-> t, form_user |-> u,
       form_session |-> sid, done |-> FALSE,
       result |-> [status |-> 0]] :
          t \in TokenUsers, u \in FormUsers, sid \in FormSessions }

\* Lines 89-134 for a request that carries a file.
ApiUpload ==
    /\ call.op = "upload"
    /\ ~call.done
    /\ \E uploaded \in BOOLEAN, inserted \in BOOLEAN :
          LET owner == UploadOwner(call.token_user, call.form_user,
                                   call.form_session, "temp_1a2b3c4d-9f8e-7d")
          IN  IF ~uploaded
              THEN Return([status |-> 500,
                           error |-> "Failed to upload file to storage"])
              ELSE IF ~inserted
              THEN Return([status |-> 500,
                           error |-> "Failed to store file metadata"])
              ELSE Return([status |-> 201,
                           row |-> OwnerColumns(owner.user_id,
                                                owner.session_id),
                           user_id |-> owner.user_id,
                           session_id |-> owner.session_id])

RowInserted == call.op = "upload" /\ call.done /\ call.result.status = 201

IsSet(x) == x \notin {None, ""}

(***************************************************************************)
(* C26, as claimed.  Every Detection Record that is inserted has exactly   *)
(* one owner: an authenticated user id or an anonymous session id is set,  *)
(* never both and never neither, for records of the messaging pipeline     *)
(* and of the upload endpoint, whatever user id and session id are sent.   *)
(***************************************************************************)
C26_ExactlyOneOwner ==
    /\ RowInserted =>
           IsSet(call.result.row.user_id) # IsSet(call.result.row.session_id)
    /\ \A i \in 1..Len(detection_history) :
           IsSet(detection_history[i].session_id)

\* An upload with a bearer token and a session id: the row carries both.
C26_Witness ==
    /\ RowInserted
    /\ call.token_user = "U1"
    /\ call.form_session = "S1"
    /\ call.result.row.user_id = "U1"
    /\ call.result.row.session_id = "S1"

\* What does hold: no inserted row is without an owner.
C26_NeverNoOwner ==
    RowInserted =>
        IsSet(call.result.row.user_id) \/ IsSet(call.result.row.session_id)

ServiceCalls ==
    ValidateCalls \cup ClassifyCalls \cup ExtensionCalls \cup KeyCalls
        \cup UploadCalls

NextServices ==
    \/ Validate
    \/ Classify
    \/ ClassifyAgain
    \/ Extension
    \/ MakeKey
    \/ ApiUpload

InitServices == NoMessages /\ call \in ServiceCalls

SpecServices == InitServices /\ [][NextServices]_vars

(***************************************************************************)
(* Two events of one identifier handled at the same time.  user_state is a *)
(* module-level dict with no lock (message_handler.py:20-25), and the      *)
(* server handles each request in a thread of its own.  A media handler    *)
(* reads the mode at line 131, waits for the download, the upload, the     *)
(* insert and the detector, and writes the mode at line 472; a text        *)
(* handler may run in between.  call holds the media handling in flight.   *)
(***************************************************************************)
\* Lines 121-183: no early return before the download.
ChecksPass(from_number, message) ==
    LET expected_state == Get(user_state, from_number, None)
        payload == Get(message, message.type, <<>>)
    IN  /\ ~NeedsGreeting(user_greeted, from_number)
        /\ ~NoModeChosen(expected_state)
        /\ ModeMismatch(message.type, expected_state, payload) = <<>>
        /\ "id" \in DOMAIN payload

\* A media message arrives: the handler returns early, or goes on to the
\* download with the mode it has read.
BeginMedia(from_number, message) ==
    /\ call.op # "handle_media"
    /\ IF ChecksPass(from_number, message)
       THEN /\ Len(storage) < MaxUploads
            /\ call' = [op |-> "handle_media",
                        from_number |-> from_number,
                        message |-> message,
                        expected_state |-> Get(user_state, from_number, None)]
            /\ UNCHANGED <<user_greeted, user_state, storage,
                           detection_history, last>>
       ELSE handle_media_message(from_number, message)

\* The handler in flight runs lines 186-478 to its return.
FinishMedia ==
    /\ call.op = "handle_media"
    /\ IntakePipeline(call.from_number, call.message,
                      Get(call.message, call.message.type, <<>>))

NextRace ==
    \/ TextEventFrom({"u1"}, PairTextBodies)
    \/ \E m \in PairMediaMessages : BeginMedia("u1", m)
    \/ FinishMedia

SpecRace == Init /\ [][NextRace]_vars

InFlight == call.op = "handle_media"

PipelineAnalysed(e) == IsMediaEvent(e) /\ IsSuccessReply(e)

(***************************************************************************)
(* C27.  With no synchronization on the session store, two events of one   *)
(* identifier handled at the same time race on the mode: a mode chosen by  *)
(* a text command while a media pipeline of that identifier is in flight   *)
(* is overwritten by the pipeline's final reset to IDLE, whatever the mode *)
(* is when the pipeline completes.                                         *)
(***************************************************************************)
C27_FinalResetOverwrites ==
    [][ (InFlight /\ call'.op = "handled_media" /\ PipelineAnalysed(last'))
            => /\ user_state'[call.from_number] = None
               /\ last'.pre_state = Get(user_state, call.from_number, None) ]_vars

\* The lost update: the pipeline read AWAITING_VIDEO, the text command "3"
\* set AWAITING_TEXT while it was in flight, and the completed pipeline left
\* the mode IDLE.
C27_Witness ==
    /\ call.op = "handled_media"
    /\ call.expected_state = AWAITING_VIDEO
    /\ PipelineAnalysed(last)
    /\ last.pre_state = AWAITING_TEXT
    /\ Get(user_state, call.from_number, None) = None

\* The mode an identifier has after an event, from its own flag and mode
\* before the event.
SoloMode(e) ==
    IF ~e.pre_greeted THEN IDLE
    ELSE IF e.message.type = "text"
    THEN CASE Normalized(e) \in WordsGreeting -> IDLE
           [] Normalized(e) \in WordsHelp -> e.pre_state
           [] Normalized(e) \in WordsImage -> AWAITING_IMAGE
           [] Normalized(e) \in WordsVideo -> AWAITING_VIDEO
           [] Normalized(e) \in WordsText -> AWAITING_TEXT
           [] OTHER -> IF e.pre_state = AWAITING_TEXT THEN IDLE
                       ELSE e.pre_state
    ELSE IF e.message.type \in MediaTypes
    THEN IF IsSuccessReply(e) THEN IDLE ELSE e.pre_state
    ELSE e.pre_state

OthersUntouched(A) ==
    \A B \in {"u1", "u2"} \ {A} :
        /\ (B \in user_greeted') <=> (B \in user_greeted)
        /\ (B \in DOMAIN user_state') <=> (B \in DOMAIN user_state)
        /\ Get(user_state', B, None) = Get(user_state, B, None)

(***************************************************************************)
(* C28.  Handling an event of identifier A, in any interleaving with       *)
(* events of other identifiers, changes the greeted flag and the mode of   *)
(* no identifier B other than A, and A's own flag and mode after the event *)
(* are the ones A's flag and mode before it, the message and the           *)
(* pipeline's outcome give when A's events are handled alone.              *)
(***************************************************************************)
C28_IdentifiersIsolated ==
    [][ last'.handled =>
            /\ OthersUntouched(last'.from)
            /\ last'.pre_greeted <=> (last'.from \in user_greeted)
            /\ last'.pre_state = Get(user_state, last'.from, None)
            /\ last'.from \in user_greeted'
            /\ Get(user_state', last'.from, None) = SoloMode(last') ]_vars

\* u2 is greeted and waits for a video while u1, not yet greeted, sends its
\* first message and gets the welcome text.
C28_Witness ==
    /\ last.handled
    /\ last.from = "u1"
    /\ ~last.pre_greeted
    /\ last.reply = <<WELCOME_MESSAGE>>
    /\ "u2" \in user_greeted
    /\ Get(user_state, "u2", None) = AWAITING_VIDEO
    /\ Get(user_state, "u1", None) = IDLE

Attempts(e, op) == Cardinality({i \in 1..Len(e.calls) : e.calls[i] = op})

DetectorAttempts(e) ==
    Cardinality({i \in 1..Len(e.calls) :
                    e.calls[i] \in {"detect_video", "detect_image",
                                    "detect_text"}})

LastAttempt(e) == e.calls[Len(e.calls)]

\* The detector was invoked and did not deliver a verdict: the request
\* raised, or the answer says so.
DetectorInvocationFailed(e) ==
    /\ DetectorAttempts(e) >= 1
    /\ \/ e.env.detector.kind = "request_exception"
       \/ "error" \in DOMAIN e.env.detector.response
       \/ /\ "success" \in DOMAIN e.env.detector.response
          /\ ~e.env.detector.response.success

\* The reply tells the user that the analysis failed.
ReplyTellsFailure(e) ==
    /\ ~e.raised
    /\ e.sent = <<e.reply>>
    /\ IF e.message.type = "text"
       THEN e.reply[1] \in {"Error analyzing text", "Text analysis failed"}
       ELSE \E i \in 1..Len(e.reply) : e.reply[i] = "Detection Error"

SaysHi(e) == IsTextEvent(e) /\ e.message.text.body = <<"h","i">>

SaysTwo(e) == IsTextEvent(e) /\ e.message.text.body = <<"2">>

\* A video event whose download, upload, insert, detection and record update
\* all succeed.
VideoAnalysed(e) ==
    /\ e.handled
    /\ e.message.type = "video"
    /\ e.calls = <<"download", "upload", "insert", "detect_video", "update">>
    /\ e.env.download.ok
    /\ e.env.upload
    /\ e.env.insert
    /\ e.env.detector.kind = "response"
    /\ "final_verdict" \in DOMAIN e.env.detector.response
    /\ "update" \in DOMAIN e.env
    /\ e.env.update

Position(s, x) ==
    IF \E i \in 1..Len(s) : s[i] = x
    THEN CHOOSE i \in 1..Len(s) : s[i] = x
    ELSE 0

\* The lines of the reply after "Analysis Breakdown" name each layer of the
\* answer in order, with its verdict.
BreakdownShown(e) ==
    LET at == Position(e.reply, "Analysis Breakdown")
        layers == Get(e.env.detector.response, "layer_results", <<>>)
        short == [n \in {"Visual Artifacts", "Temporal Consistency",
                         "Audio Sync", "Metadata"} |->
                     CASE n = "Visual Artifacts" -> "Visual Check: "
                       [] n = "Temporal Consistency" -> "Temporal Check: "
                       [] n = "Audio Sync" -> "Audio Check: "
                       [] OTHER -> "Metadata: "]
    IN  /\ at > 0
        /\ Len(e.reply) >= at + Len(layers)
        /\ \A i \in 1..Len(layers) :
               e.reply[at + i]
                   = short[layers[i].layer_name]
                         \o (IF layers[i].is_fake THEN "FAKE" ELSE "REAL")

VerdictLineShown(e) ==
    \E i \in 1..Len(e.reply) :
        e.reply[i] = (IF e.env.detector.response.final_verdict = "FAKE"
                      THEN "DEEPFAKE DETECTED" ELSE "AUTHENTIC VIDEO")

(***************************************************************************)
(* C30.  End to end: a new identifier sends "hi" and gets the welcome      *)
(* text, with mode IDLE; it sends "2", the mode becomes AWAITING_VIDEO and *)
(* the reply is the video prompt; it sends a video whose download, upload, *)
(* insert and detection succeed: the pipeline runs, the mode is IDLE when  *)
(* it completes, and the reply holds a verdict line and the breakdown with *)
(* one line for each layer of the detector's answer.                       *)
(***************************************************************************)
C30_HiTwoVideo ==
    [][ /\ (SaysHi(last') /\ ~last'.pre_greeted) =>
               /\ last'.sent = <<<<WELCOME_MESSAGE>>>>
               /\ Get(user_state', last'.from, None) = IDLE
               /\ last'.from \in user_greeted'
        /\ (SaysTwo(last') /\ last'.pre_greeted) =>
               /\ Get(user_state', last'.from, None) = AWAITING_VIDEO
               /\ last'.sent = <<<<"Please send me a video">>>>
        /\ (last'.handled /\ last'.message.type = "video"
                /\ last'.pre_greeted /\ last'.pre_state = AWAITING_VIDEO
                /\ "id" \in DOMAIN last'.message.video) =>
               /\ last'.calls # <<>>
               /\ last'.calls[1] = "download"
        /\ VideoAnalysed(last') =>
               /\ last'.pre_state = AWAITING_VIDEO
               /\ Get(user_state', last'.from, None) = IDLE
               /\ IsSuccessReply(last')
               /\ last'.sent = <<last'.reply>>
               /\ VerdictLineShown(last')
               /\ BreakdownShown(last') ]_vars

\* The scenario's last state: the video of a greeted identifier that chose
\* "2" is analysed as FAKE, the mode is IDLE again and the reply shows the
\* verdict and three layers.
C30_Witness ==
    /\ VideoAnalysed(last)
    /\ last.pre_greeted
    /\ last.pre_state = AWAITING_VIDEO
    /\ Mode(last.from) = IDLE
    /\ last.env.detector.response.final_verdict = "FAKE"
    /\ VerdictLineShown(last)
    /\ BreakdownShown(last)
    /\ Len(last.env.detector.response.layer_results) = 3
    /\ Len(detection_history) = 1
    /\ detection_history[1].detection_result = "FAKE"

\* The image detector answered an image message (the request itself did
\* not fail).
ImageAnswered(e) ==
    /\ IsMediaEvent(e)
    /\ e.message.type = "image"
    /\ Attempts(e, "detect_image") = 1
    /\ e.env.detector.kind = "response"

\* The text a field of the answer holds, empty when missing or null.
TextOr(modal_response, k) ==
    IF Get(modal_response, k, NullText) = NullText
    THEN <<>> ELSE modal_response[k]

\* The first alias of the label that holds a text.
FirstLabel(modal_response) ==
    IF TextOr(modal_response, "top_prediction") # <<>>
    THEN TextOr(modal_response, "top_prediction")
    ELSE IF TextOr(modal_response, "label") # <<>>
    THEN TextOr(modal_response, "label")
    ELSE TextOr(modal_response, "prediction")

MentionsFake(label) ==
    \/ Contains(lower(label), <<"a","i">>)
    \/ Contains(lower(label), <<"f","a","k","e">>)
    \/ Contains(lower(label), <<"g","e","n","e","r","a","t","e","d">>)

ShowsFake(e) == \E i \in 1..Len(e.reply) : e.reply[i] = "AI-GENERATED IMAGE"

(***************************************************************************)
(* C31.  Whatever the image detector answers, the answer is normalized     *)
(* without raising: the run ends with the success reply and the mode back  *)
(* at IDLE or, when only the record update failed, with the failure reply; *)
(* the verdict shown is AI-generated exactly when the first alias of the   *)
(* label that holds a text mentions AI, fake or generated, and a missing   *)
(* or null label or confidence counts as its default.                      *)
(***************************************************************************)
C31_ImageAnswerNormalized ==
    ImageAnswered(last) =>
        /\ Attempts(last, "update") = 1
        /\ Env(last, "update", FALSE) =>
              /\ IsSuccessReply(last)
              /\ Mode(last.from) = IDLE
              /\ ShowsFake(last)
                    <=> MentionsFake(FirstLabel(last.env.detector.response))

\* A null label: the run fails although upload and insert succeeded.
C31_Witness ==
    /\ ImageAnswered(last)
    /\ Get(last.env.detector.response, "prediction", <<>>) = NullText
    /\ IsFailureReply(last)
    /\ Attempts(last, "update") = 0
    /\ LastRecord.detection_result = "pending"
    /\ Mode(last.from) = AWAITING_IMAGE

\* The part of the claim that holds: an answer whose label and confidence
\* are missing, or null with no null alias behind them, is read with the
\* defaults and the verdict follows the label.
C31_DefaultsWhenReadable ==
    (ImageAnswered(last) /\ Env(last, "update", FALSE)) =>
        /\ IsSuccessReply(last)
        /\ ShowsFake(last)
              <=> MentionsFake(FirstLabel(last.env.detector.response))

(***************************************************************************)
(* The HTTP requests of one inbound message, one at a time: the webhook    *)
(* marks the message read, runs the handler and sends the reply            *)
(* (app.py:52-66).  call.pending is the request the thread is blocked in,  *)
(* call.trail the requests that ended and how.  The collaborator may       *)
(* answer, refuse, or never answer; a request given a timeout ends on its  *)
(* expiry.                                                                 *)
(***************************************************************************)
\* requests' default when no timeout argument is given: wait without limit.
NoTimeout == 0

WhatsAppRequests == {"mark_read", "media_url", "media_file", "send"}

StorageRequests == {"upload", "insert", "update"}

DetectorRequests == {"detect_video", "detect_image", "detect_text"}

\* The timeout argument of the request, in seconds.
HttpTimeout(op) ==
    CASE op = "detect_video" -> 120
      [] op = "detect_image" -> 60
      [] op = "detect_text" -> 30
      [] OTHER -> NoTimeout

\* The request ends by itself when nobody answers: a timeout argument, or
\* the storage client, whose requests are the client library's.
Expires(op) == op \in StorageRequests \/ HttpTimeout(op) # NoTimeout

InboundKinds ==
    { [type |-> "text", analysed |-> FALSE],
      [type |-> "text", analysed |-> TRUE],
      [type |-> "image", analysed |-> TRUE],
      [type |-> "video", analysed |-> TRUE],
      [type |-> "document", analysed |-> TRUE],
      [type |-> "document", analysed |-> FALSE] }

DetectorRequest(kind) ==
    CASE kind.type = "video" -> "detect_video"
      [] kind.type = "image" -> "detect_image"
      [] OTHER -> "detect_text"

\* The request that follows op ending with outcome, "done" after the send.
NextRequest(kind, op, outcome) ==
    CASE op = "mark_read" ->
            IF kind.type # "text" THEN "media_url"
            ELSE IF kind.analysed THEN "detect_text" ELSE "send"
      [] op = "media_url" -> IF outcome = "ok" THEN "media_file" ELSE "send"
      [] op = "media_file" -> IF outcome = "ok" THEN "upload" ELSE "send"
      [] op = "upload" -> IF outcome = "ok" THEN "insert" ELSE "send"
      [] op = "insert" ->
            IF outcome # "ok" THEN "send"
            ELSE IF kind.analysed THEN DetectorRequest(kind) ELSE "update"
      [] op \in DetectorRequests ->
            IF kind.type = "text" THEN "send" ELSE "update"
      [] op = "update" -> "send"
      [] OTHER -> "done"

RequestEnds(outcome) ==
    /\ call' = [call EXCEPT
                  !.pending = NextRequest(call.kind, call.pending, outcome),
                  !.trail = Append(call.trail, [op |-> call.pending,
                                                outcome |-> outcome])]
    /\ UNCHANGED <<user_greeted, user_state, storage, detection_history, last>>

Blocked == call.op = "webhook" /\ call.pending # "done"

Answer == Blocked /\ RequestEnds("ok")

Refuse == Blocked /\ RequestEnds("error")

Expire == Blocked /\ Expires(call.pending) /\ RequestEnds("timeout")

InboundCalls ==
    { [op |-> "webhook", kind |-> k, pending |-> "mark_read", trail |-> <<>>] :
        k \in InboundKinds }

InitRequests == NoMessages /\ call \in InboundCalls

NextRequests == Answer \/ Refuse \/ Expire

\* The timer of a request with a timeout runs whatever the collaborator
\* does; nothing obliges the collaborator to answer or to refuse.
SpecRequests == InitRequests /\ [][NextRequests]_vars /\ WF_vars(Expire)

Terminated == call.op = "webhook" /\ call.pending = "done"

Ended(op) == \E i \in 1..Len(call.trail) : call.trail[i].op = op

(***************************************************************************)
(* C32.  Every HTTP request of an inbound message carries a timeout, so    *)
(* the handling of every inbound message eventually terminates with the    *)
(* reply sent, even when a collaborator never answers.                     *)
(***************************************************************************)
C32_EveryMessageTerminates == <>(Terminated /\ Ended("send"))

\* The thread is blocked in a request to the messaging API, which has no
\* timeout: nothing but the collaborator ends it.
C32_Witness ==
    /\ Blocked
    /\ call.pending = "media_file"
    /\ HttpTimeout(call.pending) = NoTimeout
    /\ ~ENABLED Expire
    /\ Ended("media_url")

\* The part of the claim that holds: a request to a detector carries a
\* timeout and is followed by the next step whether it answers or expires.
C32_DetectorRequestsExpire ==
    (Blocked /\ call.pending \in DetectorRequests) =>
        /\ HttpTimeout(call.pending) \in {30, 60, 120}
        /\ ENABLED Expire

\* The place of a call in the order of the pipeline's steps.
StepRank(op) ==
    CASE op = "download" -> 1
      [] op = "upload" -> 2
      [] op = "insert" -> 3
      [] op \in DetectorCalls -> 4
      [] op = "update" -> 5
      [] OTHER -> 0

Called(e, op) == Attempts(e, op) >= 1

CallsInOrder(e) ==
    \A i, j \in 1..Len(e.calls) :
        i < j => /\ StepRank(e.calls[i]) >= 1
                 /\ StepRank(e.calls[i]) <= StepRank(e.calls[j])

\* The records that were there before the run are as they were.
OlderRecordsKept ==
    /\ Len(detection_history') >= Len(detection_history)
    /\ \A i \in 1..Len(detection_history) :
          detection_history'[i] = detection_history[i]

RunOf(e) == IsMediaEvent(e) /\ Called(e, "download")

(***************************************************************************)
(* C33.  Within one run of the pipeline the steps come in the order        *)
(* download, upload, insert, detector, record update, mode reset: an       *)
(* upload only after a successful download, an insert only after a         *)
(* successful upload, a detector call only after the insert, and a record  *)
(* update only of the record inserted in the same run; the stored objects  *)
(* and records grow by at most the one of this run.                        *)
(***************************************************************************)
C33_StepsInOrder ==
    [][RunOf(last') =>
        /\ CallsInOrder(last')
        /\ Called(last', "upload") => Env(last', "download", [ok |-> FALSE]).ok
        /\ Len(storage') = Len(storage) + 1
              <=> (Called(last', "upload") /\ Env(last', "upload", FALSE))
        /\ Called(last', "insert") => Env(last', "upload", FALSE)
        /\ Len(detection_history') = Len(detection_history) + 1
              <=> (Called(last', "insert") /\ Env(last', "insert", FALSE))
        /\ DetectorAttempts(last') >= 1 => Env(last', "insert", FALSE)
        /\ Called(last', "update") => Env(last', "insert", FALSE)
        /\ OlderRecordsKept
        /\ Get(user_state', last'.from, None) # last'.pre_state =>
              /\ Get(user_state', last'.from, None) = IDLE
              /\ Env(last', "insert", FALSE)
    ]_vars

\* A second run whose update reached its own record and left the record of
\* the first run alone.
C33_Witness ==
    /\ RunOf(last)
    /\ last.calls = <<"download", "upload", "insert", "detect_image", "update">>
    /\ Env(last, "update", FALSE)
    /\ Len(detection_history) = 2
    /\ detection_history[1].detection_result = "error"
    /\ detection_history[2].detection_result = "REAL"
    /\ Mode(last.from) = IDLE

(***************************************************************************)
(* C34.  Whenever the pipeline calls a detector for a media message, the   *)
(* detector is the one of the mode the sender had selected: the image      *)
(* detector only in AWAITING_IMAGE, the video detector only in             *)
(* AWAITING_VIDEO and the text detector only in AWAITING_TEXT, whatever    *)
(* the message type, the declared mime type, the filename and the          *)
(* downloaded mime type are.                                               *)
(***************************************************************************)
C34_DetectorMatchesMode ==
    IsMediaEvent(last) =>
        /\ Called(last, "detect_image") => last.pre_state = AWAITING_IMAGE
        /\ Called(last, "detect_video") => last.pre_state = AWAITING_VIDEO
        /\ Called(last, "detect_text") => last.pre_state = AWAITING_TEXT

\* A document sent in AWAITING_TEXT that is an image by its mime type goes
\* to the image detector, and the verdict is stored.
C34_Witness ==
    /\ IsMediaEvent(last)
    /\ last.message.type = "document"
    /\ last.pre_state = AWAITING_TEXT
    /\ Called(last, "detect_image")
    /\ Env(last, "update", FALSE)
    /\ LastRecord.file_type = "image"
    /\ LastRecord.detection_result \in {"FAKE", "REAL"}

\* What the checks before the download do ensure: an image message runs
\* only in AWAITING_IMAGE and a video message only in AWAITING_VIDEO.
C34_MessageTypeMatchesMode ==
    (IsMediaEvent(last) /\ Called(last, "download")) =>
        /\ last.message.type = "image" => last.pre_state = AWAITING_IMAGE
        /\ last.message.type = "video" => last.pre_state = AWAITING_VIDEO

Shows(e, piece) == \E i \in 1..Len(e.reply) : e.reply[i] = piece

\* The run's detector answered and its verdict was stored in the record.
VerdictStored(e, detector) ==
    /\ IsMediaEvent(e)
    /\ IsSuccessReply(e)
    /\ Called(e, detector)
    /\ Env(e, "update", FALSE)
    /\ LastRecord.detection_result \in {"FAKE", "REAL"}

ImageHeadlines == {"AI-GENERATED IMAGE", "REAL PHOTOGRAPH"}

VideoHeadlines == {"DEEPFAKE DETECTED", "AUTHENTIC VIDEO"}

DocumentHeadlines ==
    {"AI-GENERATED TEXT DETECTED", "AUTHENTIC HUMAN TEXT", "UNCERTAIN"}

Headlines == ImageHeadlines \cup VideoHeadlines \cup DocumentHeadlines

\* The reply shows headline h and no other headline.
OnlyHeadline(e, h) == \A g \in Headlines : Shows(e, g) <=> g = h

(***************************************************************************)
(* C35.  The success reply shows the verdict in the shape of the category  *)
(* whose detector ran: after the image detector the image headline of the  *)
(* stored verdict with the classification line, after the video detector   *)
(* the video headline with the analysis breakdown, after the text detector *)
(* a document headline with the prediction; also when the message type     *)
(* differs from the category the asset was classified into.                *)
(***************************************************************************)
C35_ReplyInShapeOfDetector ==
    /\ VerdictStored(last, "detect_image") =>
          /\ OnlyHeadline(last, IF LastRecord.detection_result = "FAKE"
                                THEN "AI-GENERATED IMAGE"
                                ELSE "REAL PHOTOGRAPH")
          /\ Shows(last, "Classification")
    /\ VerdictStored(last, "detect_video") =>
          /\ OnlyHeadline(last, IF LastRecord.detection_result = "FAKE"
                                THEN "DEEPFAKE DETECTED"
                                ELSE "AUTHENTIC VIDEO")
          /\ Shows(last, "Analysis Breakdown")
    /\ VerdictStored(last, "detect_text") =>
          /\ \E h \in DocumentHeadlines : OnlyHeadline(last, h)
          /\ Shows(last, "Prediction")

\* The image detector found a document's image AI-generated, the record
\* says FAKE, and the reply says UNCERTAIN in the shape of a document.
C35_Witness ==
    /\ VerdictStored(last, "detect_image")
    /\ last.message.type = "document"
    /\ LastRecord.detection_result = "FAKE"
    /\ OnlyHeadline(last, "UNCERTAIN")
    /\ Shows(last, "Prediction")
    /\ ~Shows(last, "Classification")

\* When the message type is the classified category, the reply has the
\* shape of the detector that ran.
C35_ShapeWhenTypeIsCategory ==
    /\ (VerdictStored(last, "detect_image") /\ last.message.type = "image") =>
          /\ OnlyHeadline(last, IF LastRecord.detection_result = "FAKE"
                                THEN "AI-GENERATED IMAGE"
                                ELSE "REAL PHOTOGRAPH")
          /\ Shows(last, "Classification")
    /\ (VerdictStored(last, "detect_video") /\ last.message.type = "video") =>
          /\ OnlyHeadline(last, IF LastRecord.detection_result = "FAKE"
                                THEN "DEEPFAKE DETECTED"
                                ELSE "AUTHENTIC VIDEO")
          /\ Shows(last, "Analysis Breakdown")

\* The verdict a headline of the reply stands for in the record's terms.
VerdictOfHeadline(h) ==
    CASE h \in {"AI-GENERATED IMAGE", "DEEPFAKE DETECTED",
                "AI-GENERATED TEXT DETECTED"} -> "FAKE"
      [] h \in {"REAL PHOTOGRAPH", "AUTHENTIC VIDEO",
                "AUTHENTIC HUMAN TEXT"} -> "REAL"
      [] OTHER -> "UNCERTAIN"

\* A message of the category its asset was classified into, analysed by
\* that category's detector, with the verdict stored.
AnalysedAs(e, type, detector) ==
    VerdictStored(e, detector) /\ e.message.type = type

AnalysedInCategory(e) ==
    \/ AnalysedAs(e, "image", "detect_image")
    \/ AnalysedAs(e, "video", "detect_video")
    \/ AnalysedAs(e, "document", "detect_text")

TextPrediction(e) == e.env.detector.response.result.prediction

(***************************************************************************)
(* C36.  After a successful detection the verdict stored in the record     *)
(* agrees with the verdict the reply shows; for a document each of the     *)
(* text detector's predictions AI, Human and UNCERTAIN is shown as itself  *)
(* and the record does not store a different verdict.                      *)
(***************************************************************************)
C36_StoredVerdictIsShown ==
    AnalysedInCategory(last) =>
        /\ \E h \in Headlines :
              /\ OnlyHeadline(last, h)
              /\ VerdictOfHeadline(h) = LastRecord.detection_result
        /\ AnalysedAs(last, "document", "detect_text") =>
              Shows(last, TextPrediction(last))

\* The text detector said UNCERTAIN, the reply says UNCERTAIN, and the
\* record says REAL.
C36_Witness ==
    /\ AnalysedAs(last, "document", "detect_text")
    /\ TextPrediction(last) = "UNCERTAIN"
    /\ OnlyHeadline(last, "UNCERTAIN")
    /\ Shows(last, TextPrediction(last))
    /\ LastRecord.detection_result = "REAL"

\* The part of the claim that holds: image and video verdicts, and the
\* document predictions AI and Human, are stored as shown, and every
\* document prediction is shown as itself.
C36_TwoWayVerdictsAgree ==
    AnalysedInCategory(last) =>
        /\ \E h \in Headlines :
              /\ OnlyHeadline(last, h)
              /\ VerdictOfHeadline(h) \in {LastRecord.detection_result,
                                           "UNCERTAIN"}
              /\ VerdictOfHeadline(h) = "UNCERTAIN" =>
                    /\ AnalysedAs(last, "document", "detect_text")
                    /\ TextPrediction(last) = "UNCERTAIN"
        /\ AnalysedAs(last, "document", "detect_text") =>
              Shows(last, TextPrediction(last))

(***************************************************************************)
(* Two media messages of one identifier handled at the same time (a rapid  *)
(* double-send).  Each request runs handle_media_message in a thread of    *)
(* its own: a handler that passed the checks of lines 121-183 is in        *)
(* flight until FinishFlight runs lines 186-478 for it.  call.passed       *)
(* counts the messages that passed the checks; once one has passed, no     *)
(* further text message arrives, so every pass belongs to the same mode    *)
(* selection.                                                              *)
(***************************************************************************)
MediaIds == {"m1", "m2"}

DoubleMessages ==
    { [type |-> "image", image |-> [id |-> i]] : i \in MediaIds }
      \cup { [type |-> "video",
              video |-> [id |-> i, mime_type |-> <<"video","mp4">>]] :
                i \in MediaIds }

DoubleTextBodies == { <<"h","i">>, <<"1">>, <<"2">> }

NoHandlers == [op |-> "handlers", flights |-> {}, received |-> {}, passed |-> 0]

TextBeforeMedia ==
    /\ call.passed = 0
    /\ TextEventFrom({"u1"}, DoubleTextBodies)

BeginFlight(message) ==
    /\ MediaIdOf(message) \notin call.received
    /\ IF ChecksPass("u1", message)
       THEN /\ call' = [call EXCEPT !.flights = @ \cup {message},
                                    !.received = @ \cup {MediaIdOf(message)},
                                    !.passed = @ + 1]
            /\ UNCHANGED <<user_greeted, user_state, storage,
                           detection_history, last>>
       ELSE HandleMedia("u1", message, Cardinality(MediaIds))

FinishFlight ==
    \E f \in call.flights :
        IntakePipeline("u1", f, Get(f, f.type, <<>>))

NextDouble ==
    \/ TextBeforeMedia
    \/ \E m \in DoubleMessages : BeginFlight(m)
    \/ FinishFlight

InitDouble == NoMessages /\ call = NoHandlers

SpecDouble == InitDouble /\ [][NextDouble]_vars

(***************************************************************************)
(* C37.  One mode selection authorizes at most one run of the pipeline:    *)
(* after a selection at most one media message of the identifier passes    *)
(* the mode check and reaches upload and detection, also when two media    *)
(* messages of the identifier are handled at the same time.                *)
(***************************************************************************)
C37_OneRunPerSelection ==
    call.op = "handlers" =>
        /\ call.passed <= 1
        /\ Len(storage) <= 1
        /\ Len(detection_history) <= 1

\* Two images sent in quick succession after one selection: both passed
\* the check before either handler reset the mode, both were uploaded and
\* both were analysed.
C37_Witness ==
    /\ call.op = "handlers"
    /\ call.passed = 2
    /\ call.flights = {}
    /\ Len(storage) = 2
    /\ Len(detection_history) = 2
    /\ \A i \in 1..2 : detection_history[i].detection_result \in {"FAKE", "REAL"}
    /\ Mode("u1") = IDLE

\* Handled one after the other, a message that follows a run which
\* returned success is turned away: that run has reset the mode.
C37_AfterSuccessTurnedAway ==
    (call.op = "handlers" /\ call.flights = {} /\ IsMediaEvent(last)
        /\ IsSuccessReply(last)) => Mode("u1") = IDLE

StorageCalls == {"download", "upload", "insert", "update"}

(***************************************************************************)
(* C38.  Handling a text message never uploads an asset and never inserts  *)
(* or updates a record: the stored objects and detection_history are the   *)
(* same after the message as before it, whatever the text and the mode,    *)
(* also when the text is sent to the text detector.                        *)
(***************************************************************************)
C38_TextTouchesNoStorage ==
    [][IsTextEvent(last') =>
        /\ storage' = storage
        /\ detection_history' = detection_history
        /\ \A i \in 1..Len(last'.calls) : last'.calls[i] \notin StorageCalls
    ]_vars

\* A text analysed by the text detector after an image was stored: the
\* object and the record of the image are all there is.
C38_Witness ==
    /\ IsTextEvent(last)
    /\ last.pre_state = AWAITING_TEXT
    /\ Called(last, "detect_text")
    /\ Shows(last, "Prediction")
    /\ Len(storage) = 1
    /\ Len(detection_history) = 1
    /\ LastRecord.file_type = "image"

(***************************************************************************)
(* app.py, webhook (POST): one inbound event with its entries, changes and *)
(* messages.  The loops of lines 52-66 run over the changes of entry[0]    *)
(* only, inside one try whose except clause (68-71) ends the request.      *)
(* call.data is the event, call.seen the messages the loop has come to.    *)
(***************************************************************************)
EventMessages ==
    { [from |-> "u1", body |-> <<"h","i">>],
      [from |-> "u1", body |-> Rep("a", 20)],
      [from |-> None, body |-> <<"1">>] }

\* The messages of one change: none, one or two.
EventChanges ==
    {<<>>} \cup { <<m>> : m \in EventMessages }
           \cup { <<m, n>> : m, n \in EventMessages }

EventEntries ==
    { <<c>> : c \in EventChanges }
      \cup { <<<<m>>, <<n>>>> : m, n \in EventMessages }

LaterEntries == { <<<<m>>>> : m \in EventMessages }

EventData ==
    { <<e>> : e \in EventEntries }
      \cup { <<e, f>> : e \in EventEntries, f \in LaterEntries }

RECURSIVE Flatten(_)
\* The elements of a sequence of sequences, in order.
Flatten(ss) == IF ss = <<>> THEN <<>> ELSE Head(ss) \o Flatten(Tail(ss))

\* changes = entry[0].get("changes", []); for change in changes: for
\* message in value.get("messages", [])
LoopMessages(data) == IF data = <<>> THEN <<>> ELSE Flatten(data[1])

Cursor == Len(call.seen) + 1

\* The loop has a next message: none has raised, and one is left.
InLoop ==
    /\ call.op = "event"
    /\ ~last.raised
    /\ Cursor <= Len(LoopMessages(call.data))

\* Lines 59-60: a message without a sender is passed over.
SkipMessage ==
    /\ InLoop
    /\ LoopMessages(call.data)[Cursor].from = None
    /\ call' = [call EXCEPT !.seen = Append(@, [type |-> "skipped"])]
    /\ UNCHANGED <<user_greeted, user_state, storage, detection_history, last>>

\* Lines 62-66: the message is handled and the reply sent.
ProcessMessage ==
    /\ InLoop
    /\ LET m == LoopMessages(call.data)[Cursor]
       IN  /\ m.from # None
           /\ ReceiveText(m.from, m.body)

EventCalls == { [op |-> "event", data |-> d, seen |-> <<>>] : d \in EventData }

\* The sender is new, or has said hi and chosen 3 before the event.
InitEvent ==
    /\ \/ user_greeted = {} /\ user_state = <<>>
       \/ user_greeted = {"u1"} /\ user_state = Put(<<>>, "u1", "text")
    /\ storage = <<>>
    /\ detection_history = <<>>
    /\ last = [handled |-> FALSE, from |-> None, message |-> [type |-> None],
               pre_greeted |-> FALSE, pre_state |-> None, reply |-> NoReply,
               sent |-> <<>>, calls |-> <<>>, raised |-> FALSE,
               env |-> NoEnv]
    /\ call \in EventCalls

NextEvent == SkipMessage \/ ProcessMessage

SpecEvent == InitEvent /\ [][NextEvent]_vars

\* The request has returned "ok".
EventEnded == call.op = "event" /\ ~InLoop

\* The bodies of the messages the handlers were given, in order.
BodiesHandled ==
    LET handled == SelectSeq(call.seen, LAMBDA m : m.type = "text")
    IN  [i \in 1..Len(handled) |-> handled[i].text.body]

\* The bodies of the messages with a sender among ms, in order.
BodiesWithSender(ms) ==
    LET with == SelectSeq(ms, LAMBDA m : m.from # None)
    IN  [i \in 1..Len(with) |-> with[i].body]

IsPrefixOf(s, t) == Len(s) <= Len(t) /\ SubSeq(t, 1, Len(s)) = s

(***************************************************************************)
(* C39.  Of an inbound event with several messages, across all its entries *)
(* and changes, every message that has a sender is handled, in order; a    *)
(* failure while one message is handled does not keep the later messages   *)
(* of the event from being handled.                                        *)
(***************************************************************************)
C39_EveryMessageHandled ==
    (EventEnded /\ call.seen # <<>>) =>
        BodiesHandled = BodiesWithSender(Flatten(Flatten(call.data)))

\* The detector's answer to the first message made its handler raise; the
\* request has ended and the second message of the same change, which has
\* a sender, was never handled.
C39_Witness ==
    /\ EventEnded
    /\ last.raised
    /\ Len(call.data) = 1
    /\ Len(call.seen) = 1
    /\ Len(LoopMessages(call.data)) = 2
    /\ LoopMessages(call.data)[2].from # None

\* What the loop does ensure: the messages of the first entry that have a
\* sender are handled in order, all of them unless a handler raised.
C39_FirstEntryInOrder ==
    call.op = "event" =>
        /\ IsPrefixOf(BodiesHandled,
                      BodiesWithSender(LoopMessages(call.data)))
        /\ (EventEnded /\ ~last.raised) =>
              BodiesHandled = BodiesWithSender(LoopMessages(call.data))

\* The run tried to write the 'error' status and that write failed.
ErrorWriteFailed(e) ==
    /\ IsMediaEvent(e)
    /\ "error_update" \in DOMAIN e.env
    /\ ~e.env.error_update

(***************************************************************************)
(* C40.  When detection fails after the record exists and the write of the *)
(* 'error' status fails too, that second failure is swallowed: nothing is  *)
(* raised, the one reply is the success reply that reports the upload and  *)
(* the detection error, the record is left as inserted, and the mode is    *)
(* reset to IDLE.                                                          *)
(***************************************************************************)
C40_FailedErrorWriteSwallowed ==
    ErrorWriteFailed(last) =>
        /\ ~last.raised
        /\ Len(last.sent) = 1
        /\ IsSuccessReply(last)
        /\ Shows(last, "Detection Error")
        /\ \A h \in Headlines : ~Shows(last, h)
        /\ LastRecord.detection_result = "pending"
        /\ Mode(last.from) = IDLE

\* The image detector's request failed and so did the write of the error
\* status: the sender still gets the upload report with the error.
C40_Witness ==
    /\ ErrorWriteFailed(last)
    /\ Called(last, "detect_image")
    /\ last.env.detector.kind = "request_exception"
    /\ last.pre_state = AWAITING_IMAGE
    /\ IsSuccessReply(last)
    /\ Shows(last, "Detection Error")
    /\ LastRecord.detection_result = "pending"
    /\ Mode(last.from) = IDLE

====
